---- MODULE Spec2Model ----
(***************************************************************************)
(* Model of the Scedel parser (src/src/parser-service.js).                 *)
(*                                                                         *)
(* A JavaScript string is modelled as a sequence of one-character strings, *)
(* so that slicing, trimming, prefix tests and regular-expression matching *)
(* are computed character by character as the code computes them.          *)
(* JavaScript `null`/`undefined` is Null for object-valued places and      *)
(* NullStr for string-valued places (a one-element sequence holding an     *)
(* atom that is no character).                                             *)
(***************************************************************************)
EXTENDS Integers, Sequences, FiniteSets, TLC

VARIABLES
  \* ---- one parseString call (src/src/parser-service.js:35-132)
  source,              \* argument `source`
  sourceName,          \* argument `sourceName`
  statements,          \* const statements = splitTopLevelStatements(source)
  idx,                 \* position of the for-of loop in `statements` (1-based)
  version,             \* let version = null
  includes,            \* const includes = []
  fileStatements,      \* const fileStatements = []
  pendingAnnotations,  \* const pendingAnnotations = []
  pc,                  \* "idle" | "running" | "done" | "failed"
  error,               \* the ParseError thrown, or Null
  document,            \* the Document returned, or Null
  \* ---- one splitByTopLevelComma call (src/src/parser-service.js:273-294)
  input,               \* argument `input`
  pos,                 \* loop variable `i` (0-based, as in the code)
  start,               \* let start = 0
  state,               \* const state = createScannerState()
  parts,               \* const parts = []
  spc,                 \* "idle" | "scan" | "done"
  \* ---- one parseAnnotationTarget call (src/src/parser-service.js:214-244)
  rawTarget,           \* argument `rawTarget`
  target,              \* the value returned, or Null
  targetError,         \* the ParseError thrown, or Null
  tpc,                 \* "idle" | "done" | "failed"
  \* ---- the caller's view of a sequence of parseString calls
  history              \* what the earlier calls returned or threw, oldest first

parseVars == <<source, sourceName, statements, idx, version, includes,
               fileStatements, pendingAnnotations, pc, error, document>>
splitVars == <<input, pos, start, state, parts, spc>>
targetVars == <<rawTarget, target, targetError, tpc>>
vars == <<parseVars, splitVars, targetVars, history>>

Null == [kind |-> "null"]
NullStr == <<"null">>

\* ------------------------------------------------------------------------
\* Character classes
\* ------------------------------------------------------------------------
Letters ==
  {"a","b","c","d","e","f","g","h","i","j","k","l","m",
   "n","o","p","q","r","s","t","u","v","w","x","y","z",
   "A","B","C","D","E","F","G","H","I","J","K","L","M",
   "N","O","P","Q","R","S","T","U","V","W","X","Y","Z"}
Digits == {"0","1","2","3","4","5","6","7","8","9"}

\* [A-Za-z_] and [A-Za-z0-9_]
IdentStartChars == Letters \cup {"_"}
IdentPartChars == Letters \cup Digits \cup {"_"}
IsIdentStart(c) == c \in IdentStartChars
IsIdentPart(c) == c \in IdentPartChars

\* \s of a regular expression and the characters String.prototype.trim removes
\* (restricted to the ASCII ones)
IsSpace(c) == c = " " \/ c = "\t" \/ c = "\n" \/ c = "\r" \/ c = "\f"

\* a line terminator: `.` without the s flag does not match it
IsLineTerminator(c) == c = "\n" \/ c = "\r"

DigitValue(c) ==
  CASE c = "0" -> 0 [] c = "1" -> 1 [] c = "2" -> 2 [] c = "3" -> 3 [] c = "4" -> 4
    [] c = "5" -> 5 [] c = "6" -> 6 [] c = "7" -> 7 [] c = "8" -> 8 [] c = "9" -> 9

\* ------------------------------------------------------------------------
\* String primitives (1-based positions; p = Len(s) + 1 is the end of s)
\* ------------------------------------------------------------------------
Min(a, b) == IF a < b THEN a ELSE b
Max(a, b) == IF a > b THEN a ELSE b

\* s.slice(from, to) with 0-based offsets
Slice(s, from, to) == SubSeq(s, Min(from, Len(s)) + 1, Min(to, Len(s)))

\* s.startsWith(prefix)
startsWith(s, prefix) ==
  /\ Len(s) >= Len(prefix)
  /\ SubSeq(s, 1, Len(prefix)) = prefix

\* does `word` occur in s at position p
At(s, p, word) ==
  /\ p + Len(word) - 1 <= Len(s)
  /\ SubSeq(s, p, p + Len(word) - 1) = word

RECURSIVE SkipSpace(_, _)
\* \s* from p: the position of the first character at or after p that is no space
SkipSpace(s, p) ==
  IF p <= Len(s) /\ IsSpace(s[p]) THEN SkipSpace(s, p + 1) ELSE p

RECURSIVE SkipNonSpace(_, _)
\* [^\s]* from p
SkipNonSpace(s, p) ==
  IF p <= Len(s) /\ ~IsSpace(s[p]) THEN SkipNonSpace(s, p + 1) ELSE p

RECURSIVE SkipDigits(_, _)
\* \d* from p
SkipDigits(s, p) ==
  IF p <= Len(s) /\ s[p] \in Digits THEN SkipDigits(s, p + 1) ELSE p

RECURSIVE SkipIdentPart(_, _)
SkipIdentPart(s, p) ==
  IF p <= Len(s) /\ IsIdentPart(s[p]) THEN SkipIdentPart(s, p + 1) ELSE p

\* [A-Za-z0-9_]+ at p: a digit accepted as the first character
ScanIdentAnyStart(s, p) ==
  IF p <= Len(s) /\ IsIdentPart(s[p]) THEN SkipIdentPart(s, p + 1) ELSE 0

\* [A-Za-z_][A-Za-z0-9_]* at p: the position after it, or 0 when there is none
ScanIdent(s, p) ==
  IF p <= Len(s) /\ IsIdentStart(s[p]) THEN SkipIdentPart(s, p + 1) ELSE 0

RECURSIVE LastNonSpace(_, _)
LastNonSpace(s, p) ==
  IF p >= 1 /\ IsSpace(s[p]) THEN LastNonSpace(s, p - 1) ELSE p

\* s.trim()
Trim(s) == SubSeq(s, SkipSpace(s, 1), LastNonSpace(s, Len(s)))

RECURSIVE ToNumber(_, _)
\* Number(digits): acc is the value of the digits already read
ToNumber(ds, acc) ==
  IF ds = <<>> THEN acc ELSE ToNumber(Tail(ds), 10 * acc + DigitValue(Head(ds)))

RECURSIVE SplitOn(_, _, _, _)
\* s.split(sep) for a one-character separator: from is where the current piece begins
SplitOn(s, sep, from, p) ==
  IF p > Len(s) THEN <<SubSeq(s, from, Len(s))>>
  ELSE IF s[p] = sep
       THEN <<SubSeq(s, from, p - 1)>> \o SplitOn(s, sep, p + 1, p + 1)
       ELSE SplitOn(s, sep, from, p + 1)

\* a capture group ([\s\S]+) that follows \s* and runs to the end of s, entered at p:
\* \s* is greedy, and gives one space back when nothing else is left for the group.
\* NullStr when the group cannot match.
RestGroup(s, p) ==
  LET q == SkipSpace(s, p)
  IN IF q <= Len(s) THEN SubSeq(s, q, Len(s))
     ELSE IF q > p THEN SubSeq(s, Len(s), Len(s))
     ELSE NullStr

\* ------------------------------------------------------------------------
\* ParseError (src/src/parser-service.js:4-15)
\* ------------------------------------------------------------------------
Option(options, field, default) ==
  IF field \in DOMAIN options THEN options[field] ELSE default

\* new ParseError(message, options): the message text is not modelled
ParseError(options) ==
  [name |-> "ParseError",
   sourceName |-> Option(options, "sourceName", "null"),
   line |-> Option(options, "line", "null"),
   column |-> Option(options, "column", "null"),
   code |-> Option(options, "code", "InvalidExpression"),
   category |-> Option(options, "category", "ParseError"),
   offendingToken |-> Option(options, "offendingToken", "null")]

\* the outcome of a helper that may throw
Ok(v) == [ok |-> TRUE, value |-> v]
Thrown(e) == [ok |-> FALSE, error |-> e]

\* ------------------------------------------------------------------------
\* splitTopLevelStatements (src/src/parser-service.js:135-170)
\* ------------------------------------------------------------------------
RECURSIVE splitLines(_, _, _)
\* source.split(/\r?\n/): from is where the current line begins, p the scan position
splitLines(s, from, p) ==
  IF p > Len(s) THEN <<SubSeq(s, from, Len(s))>>
  ELSE IF s[p] = "\n"
       THEN LET last == IF p > from /\ s[p - 1] = "\r" THEN p - 2 ELSE p - 1
            IN <<SubSeq(s, from, last)>> \o splitLines(s, p + 1, p + 1)
       ELSE splitLines(s, from, p + 1)

\* the keyword wherever the text of the line begins, with or without a space after it
isStatementStartKeyword(line) ==
  \/ startsWith(Trim(line), <<"@">>)
  \/ startsWith(Trim(line), (* scedel-version *) <<"s", "c", "e", "d", "e", "l", "-", "v", "e", "r", "s", "i", "o", "n">>)
  \/ startsWith(Trim(line), (* include *) <<"i", "n", "c", "l", "u", "d", "e">>)
  \/ startsWith(Trim(line), (* type *) <<"t", "y", "p", "e">>)
  \/ startsWith(Trim(line), (* validator *) <<"v", "a", "l", "i", "d", "a", "t", "o", "r">>)

isStatementStart(line) ==
  \/ startsWith(line, <<"@">>)
  \/ startsWith(line, (* scedel-version  *) <<"s", "c", "e", "d", "e", "l", "-", "v", "e", "r", "s", "i", "o", "n", " ">>)
  \/ startsWith(line, (* include  *) <<"i", "n", "c", "l", "u", "d", "e", " ">>)
  \/ startsWith(line, (* type  *) <<"t", "y", "p", "e", " ">>)
  \/ startsWith(line, (* validator  *) <<"v", "a", "l", "i", "d", "a", "t", "o", "r", " ">>)

RECURSIVE collectStarts(_, _, _)
\* the first loop: offset advances by line.length + 1 for every line
collectStarts(lines, k, offset) ==
  IF k > Len(lines) THEN <<>>
  ELSE (IF isStatementStart(lines[k]) THEN <<offset>> ELSE <<>>)
       \o collectStarts(lines, k + 1, offset + Len(lines[k]) + 1)

statementStarts(s) == collectStarts(splitLines(s, 1, 1), 1, 0)

\* the chunk of the i-th start: source.slice(from, to).trim()
chunkAt(s, starts, i) ==
  LET from == starts[i]
      to == IF i < Len(starts) THEN starts[i + 1] ELSE Len(s)
  IN Trim(Slice(s, from, to))

splitTopLevelStatements(s) ==
  LET starts == statementStarts(s)
      chunks == [i \in 1..Len(starts) |-> chunkAt(s, starts, i)]
  IN SelectSeq(chunks, LAMBDA chunk : chunk # <<>>)

\* ------------------------------------------------------------------------
\* parseVersionLiteral (src/src/parser-service.js:172-186)
\* ------------------------------------------------------------------------
\* raw.match(/^(\d+)\.(\d+)(?:\.(\d+))?$/)
matchVersionLiteral(raw) ==
  LET a == SkipDigits(raw, 1)
      b == SkipDigits(raw, a + 1)
      c == SkipDigits(raw, b + 1)
      two == a > 1 /\ At(raw, a, <<".">>) /\ b > a + 1
  IN IF two /\ b = Len(raw) + 1
     THEN [ok |-> TRUE, g1 |-> SubSeq(raw, 1, a - 1), g2 |-> SubSeq(raw, a + 1, b - 1),
           g3 |-> NullStr]
     ELSE IF two /\ At(raw, b, <<".">>) /\ c > b + 1 /\ c = Len(raw) + 1
     THEN [ok |-> TRUE, g1 |-> SubSeq(raw, 1, a - 1), g2 |-> SubSeq(raw, a + 1, b - 1),
           g3 |-> SubSeq(raw, b + 1, c - 1)]
     ELSE [ok |-> FALSE]

\* a malformed literal reported with the default code
parseVersionLiteralDefaultCode(raw, name) ==
  LET match == matchVersionLiteral(raw)
  IN IF ~match.ok
     THEN Thrown(ParseError([sourceName |-> name]))
     ELSE Ok([major |-> ToNumber(match.g1, 0),
              minor |-> ToNumber(match.g2, 0),
              patch |-> IF match.g3 = NullStr THEN 0 ELSE ToNumber(match.g3, 0)])

parseVersionLiteral(raw, name) ==
  LET match == matchVersionLiteral(raw)
  IN IF ~match.ok
     THEN Thrown(ParseError([sourceName |-> name, code |-> "InvalidVersionDirective"]))
     ELSE Ok([major |-> ToNumber(match.g1, 0),
              minor |-> ToNumber(match.g2, 0),
              patch |-> IF match.g3 = NullStr THEN 0 ELSE ToNumber(match.g3, 0)])

\* statement.match(/^scedel-version\s+([^\s]+)\s*$/)
matchVersionDirective(statement) ==
  LET a == Len((* scedel-version *) <<"s", "c", "e", "d", "e", "l", "-", "v", "e", "r", "s", "i", "o", "n">>) + 1
      b == SkipSpace(statement, a)
      c == SkipNonSpace(statement, b)
  IN IF /\ startsWith(statement, (* scedel-version *) <<"s", "c", "e", "d", "e", "l", "-", "v", "e", "r", "s", "i", "o", "n">>)
        /\ b > a
        /\ c > b
        /\ SkipSpace(statement, c) = Len(statement) + 1
     THEN [ok |-> TRUE, g1 |-> SubSeq(statement, b, c - 1)]
     ELSE [ok |-> FALSE]

\* ------------------------------------------------------------------------
\* String literals
\* ------------------------------------------------------------------------
RECURSIVE ScanLiteralBody(_, _, _, _)
\* (?:[^q\\]|\\.)*q from p, q the quote: the position after the closing quote, or 0.
\* dotAll is the s flag: without it `.` does not match a line terminator.
ScanLiteralBody(s, p, quote, dotAll) ==
  IF p > Len(s) THEN 0
  ELSE IF s[p] = quote THEN p + 1
  ELSE IF s[p] = "\\"
       THEN IF p + 1 <= Len(s) /\ (dotAll \/ ~IsLineTerminator(s[p + 1]))
            THEN ScanLiteralBody(s, p + 2, quote, dotAll)
            ELSE 0
       ELSE ScanLiteralBody(s, p + 1, quote, dotAll)

\* (?:"(?:[^"\\]|\\.)*"|'(?:[^'\\]|\\.)*') at p: the position after it, or 0
ScanLiteral(s, p, dotAll) ==
  IF p <= Len(s) /\ s[p] \in {"\"", "'"}
  THEN ScanLiteralBody(s, p + 1, s[p], dotAll)
  ELSE 0

RECURSIVE decodeCharsPlain(_, _, _)
\* the character after a backslash copied as it is, whatever it is
decodeCharsPlain(body, p, escaped) ==
  IF p > Len(body) THEN <<>>
  ELSE IF ~escaped /\ body[p] = "\\" THEN decodeCharsPlain(body, p + 1, TRUE)
  ELSE <<body[p]>> \o decodeCharsPlain(body, p + 1, FALSE)

RECURSIVE decodeChars(_, _, _)
\* the loop of decodeStringLiteral over literal[1 .. length-2]
decodeChars(body, p, escaped) ==
  IF p > Len(body) THEN <<>>
  ELSE LET char == body[p]
       IN IF escaped
          THEN <<(IF char = "n" THEN "\n"
                  ELSE IF char = "r" THEN "\r"
                  ELSE IF char = "t" THEN "\t"
                  ELSE char)>> \o decodeChars(body, p + 1, FALSE)
          ELSE IF char = "\\" THEN decodeChars(body, p + 1, TRUE)
          ELSE <<char>> \o decodeChars(body, p + 1, FALSE)

\* decodeStringLiteral (src/src/parser-service.js:296-330)
decodeStringLiteral(literal) ==
  IF \/ literal = <<>>
     \/ literal[1] \notin {"\"", "'"}
     \/ literal[Len(literal)] # literal[1]
  THEN Thrown(ParseError(<<>>))
  ELSE Ok(decodeChars(SubSeq(literal, 2, Len(literal) - 1), 1, FALSE))

\* statement.match(/^include\s+(<literal>)\s*$/s)
matchInclude(statement) ==
  LET a == Len((* include *) <<"i", "n", "c", "l", "u", "d", "e">>) + 1
      b == SkipSpace(statement, a)
      c == ScanLiteral(statement, b, TRUE)
  IN IF /\ startsWith(statement, (* include *) <<"i", "n", "c", "l", "u", "d", "e">>)
        /\ b > a
        /\ c > 0
        /\ SkipSpace(statement, c) = Len(statement) + 1
     THEN [ok |-> TRUE, g1 |-> SubSeq(statement, b, c - 1)]
     ELSE [ok |-> FALSE]

\* ------------------------------------------------------------------------
\* parseAnnotationTarget (src/src/parser-service.js:214-244)
\* ------------------------------------------------------------------------
RECURSIVE ScanFieldList(_, _)
\* (?:\s*,\s*[A-Za-z_][A-Za-z0-9_]*)* from p: the position after the last repetition
ScanFieldList(s, p) ==
  LET q == SkipSpace(s, p)
      r == IF At(s, q, <<",">>) THEN ScanIdent(s, SkipSpace(s, q + 1)) ELSE 0
  IN IF r > 0 THEN ScanFieldList(s, r) ELSE p

\* rawTarget.match(/^(ID)\.\{(ID(?:\s*,\s*ID)*)\}$/)
matchFieldSet(raw) ==
  LET a == ScanIdent(raw, 1)
      b == IF a > 0 /\ At(raw, a, <<".", "{">>) THEN ScanIdent(raw, a + 2) ELSE 0
      c == IF b > 0 THEN ScanFieldList(raw, b) ELSE 0
  IN IF c > 0 /\ At(raw, c, <<"}">>) /\ c = Len(raw)
     THEN [ok |-> TRUE, g1 |-> SubSeq(raw, 1, a - 1), g2 |-> SubSeq(raw, a + 2, c - 1)]
     ELSE [ok |-> FALSE]

\* list.map((x) => x.trim())
TrimAll(list) == [k \in 1..Len(list) |-> Trim(list[k])]

\* list.filter(Boolean): the empty string is the only falsy string
NonEmpty(list) == SelectSeq(list, LAMBDA x : x # <<>>)

\* the empty segments kept
parseAnnotationTargetKeepEmpty(raw, name) ==
  LET fieldSetMatch == matchFieldSet(raw)
      path == TrimAll(SplitOn(raw, ".", 1, 1))
  IN IF fieldSetMatch.ok
     THEN Ok([kind |-> "fieldSet",
              typeName |-> fieldSetMatch.g1,
              fields |-> TrimAll(SplitOn(fieldSetMatch.g2, ",", 1, 1)),
              raw |-> raw])
     ELSE IF Len(path) = 0
     THEN Thrown(ParseError([sourceName |-> name,
                             code |-> "InvalidAnnotationTarget",
                             category |-> "SemanticError"]))
     ELSE IF Len(path) = 1
     THEN Ok([kind |-> "type", typeName |-> path[1], raw |-> raw])
     ELSE Ok([kind |-> "fieldPath",
              typeName |-> path[1],
              path |-> SubSeq(path, 2, Len(path)),
              raw |-> raw])

parseAnnotationTarget(raw, name) ==
  LET fieldSetMatch == matchFieldSet(raw)
      path == NonEmpty(TrimAll(SplitOn(raw, ".", 1, 1)))
  IN IF fieldSetMatch.ok
     THEN Ok([kind |-> "fieldSet",
              typeName |-> fieldSetMatch.g1,
              fields |-> TrimAll(SplitOn(fieldSetMatch.g2, ",", 1, 1)),
              raw |-> raw])
     ELSE IF Len(path) = 0
     THEN Thrown(ParseError([sourceName |-> name,
                             code |-> "InvalidAnnotationTarget",
                             category |-> "SemanticError"]))
     ELSE IF Len(path) = 1
     THEN Ok([kind |-> "type", typeName |-> path[1], raw |-> raw])
     ELSE Ok([kind |-> "fieldPath",
              typeName |-> path[1],
              path |-> SubSeq(path, 2, Len(path)),
              raw |-> raw])

\* ------------------------------------------------------------------------
\* parseAnnotationStatement (src/src/parser-service.js:188-212)
\* ------------------------------------------------------------------------
RECURSIVE ScanDottedTail(_, _)
\* (?:\.[A-Za-z_][A-Za-z0-9_]*)* from p
ScanDottedTail(s, p) ==
  LET r == IF At(s, p, <<".">>) THEN ScanIdent(s, p + 1) ELSE 0
  IN IF r > 0 THEN ScanDottedTail(s, r) ELSE p

\* (?:\s+on\s+([\s\S]+))?$ entered at p: the third group, NullStr when the optional
\* group is skipped; ok tells whether the end of the statement is reached
matchOnClause(s, p) ==
  LET a == SkipSpace(s, p)
      b == a + 2
      c == SkipSpace(s, b)
  IN IF a > p /\ At(s, a, <<"o", "n">>) /\ c > b /\ c <= Len(s)
     THEN [ok |-> TRUE, g3 |-> SubSeq(s, c, Len(s))]
     ELSE IF a > p /\ At(s, a, <<"o", "n">>) /\ c > b + 1
     THEN [ok |-> TRUE, g3 |-> SubSeq(s, Len(s), Len(s))]
     ELSE IF p = Len(s) + 1
     THEN [ok |-> TRUE, g3 |-> NullStr]
     ELSE [ok |-> FALSE]

\* statement.match(/^@(key)(?:\s*=\s*(<literal>))?(?:\s+on\s+([\s\S]+))?$/)
matchAnnotation(statement) ==
  LET k0 == IF At(statement, 1, <<"@">>) THEN ScanIdent(statement, 2) ELSE 0
      k == IF k0 > 0 THEN ScanDottedTail(statement, k0) ELSE 0
      eq == SkipSpace(statement, k)
      lit == SkipSpace(statement, eq + 1)
      e == IF k > 0 /\ At(statement, eq, <<"=">>) THEN ScanLiteral(statement, lit, FALSE) ELSE 0
      withValue == IF e > 0 THEN matchOnClause(statement, e) ELSE [ok |-> FALSE]
      bare == IF k > 0 THEN matchOnClause(statement, k) ELSE [ok |-> FALSE]
  IN IF withValue.ok
     THEN [ok |-> TRUE, g1 |-> SubSeq(statement, 2, k - 1),
           g2 |-> SubSeq(statement, lit, e - 1), g3 |-> withValue.g3]
     ELSE IF bare.ok
     THEN [ok |-> TRUE, g1 |-> SubSeq(statement, 2, k - 1),
           g2 |-> NullStr, g3 |-> bare.g3]
     ELSE [ok |-> FALSE]

parseAnnotationStatement(statement, name) ==
  LET match == matchAnnotation(statement)
      decoded == decodeStringLiteral(match.g2)
      annotation == [kind |-> "annotation",
                     key |-> match.g1,
                     value |-> IF match.g2 # NullStr THEN decoded.value ELSE (* true *) <<"t", "r", "u", "e">>]
      parsedTarget == parseAnnotationTarget(Trim(match.g3), name)
  IN IF ~match.ok
     THEN Thrown(ParseError([sourceName |-> name]))
     ELSE IF match.g2 # NullStr /\ ~decoded.ok
     THEN Thrown(decoded.error)
     ELSE IF match.g3 = NullStr
     THEN Ok([kind |-> "inlineAnnotation", annotation |-> annotation])
     ELSE IF ~parsedTarget.ok
     THEN Thrown(parsedTarget.error)
     ELSE Ok([kind |-> "targetedAnnotation",
              annotation |-> annotation,
              target |-> parsedTarget.value])

\* ------------------------------------------------------------------------
\* Scanner (src/src/parser-service.js:332-474)
\* ------------------------------------------------------------------------
createScannerState ==
  [inSingleQuote |-> FALSE,
   inDoubleQuote |-> FALSE,
   inRegex |-> FALSE,
   inBlockComment |-> FALSE,
   inLineComment |-> FALSE,
   escaped |-> FALSE,
   braceDepth |-> 0,
   parenDepth |-> 0,
   bracketDepth |-> 0,
   lastSignificant |-> ""]

isWhitespace(char) == char = " " \/ char = "\t" \/ char = "\n" \/ char = "\r"

RegexStartChars ==
  {"", "(", "[", "{", ",", ":", "=", "|", "&", "!", "?", "+", "-", "*", "<", ">"}

isRegexStart(lastSignificant) == lastSignificant \in RegexStartChars

\* the parenthesis depth left out
isTopLevelIgnoringParens(st) ==
  /\ ~st.inSingleQuote
  /\ ~st.inDoubleQuote
  /\ ~st.inRegex
  /\ ~st.inBlockComment
  /\ ~st.inLineComment
  /\ st.braceDepth = 0
  /\ st.bracketDepth = 0

isTopLevel(st) ==
  /\ ~st.inSingleQuote
  /\ ~st.inDoubleQuote
  /\ ~st.inRegex
  /\ ~st.inBlockComment
  /\ ~st.inLineComment
  /\ st.braceDepth = 0
  /\ st.parenDepth = 0
  /\ st.bracketDepth = 0

\* the bracket counting without Math.max
countBracketsUnclamped(st, char) ==
  IF char = "{" THEN [st EXCEPT !.braceDepth = @ + 1]
  ELSE IF char = "}" THEN [st EXCEPT !.braceDepth = @ - 1]
  ELSE IF char = "(" THEN [st EXCEPT !.parenDepth = @ + 1]
  ELSE IF char = ")" THEN [st EXCEPT !.parenDepth = @ - 1]
  ELSE IF char = "[" THEN [st EXCEPT !.bracketDepth = @ + 1]
  ELSE IF char = "]" THEN [st EXCEPT !.bracketDepth = @ - 1]
  ELSE st

\* the bracket counting at the end of advanceScannerState (lines 419-431)
countBrackets(st, char) ==
  IF char = "{" THEN [st EXCEPT !.braceDepth = @ + 1]
  ELSE IF char = "}" THEN [st EXCEPT !.braceDepth = Max(0, @ - 1)]
  ELSE IF char = "(" THEN [st EXCEPT !.parenDepth = @ + 1]
  ELSE IF char = ")" THEN [st EXCEPT !.parenDepth = Max(0, @ - 1)]
  ELSE IF char = "[" THEN [st EXCEPT !.bracketDepth = @ + 1]
  ELSE IF char = "]" THEN [st EXCEPT !.bracketDepth = Max(0, @ - 1)]
  ELSE st

\* advanceScannerState(state, source, i), i 0-based: the state after the call
advanceScannerState(st, s, i) ==
  LET char == s[i + 1]
      next == IF i + 2 <= Len(s) THEN s[i + 2] ELSE ""
      counted == countBrackets(st, char)
  IN IF st.inLineComment THEN st
     ELSE IF st.inBlockComment
     THEN IF char = "*" /\ next = "/" THEN [st EXCEPT !.inBlockComment = FALSE] ELSE st
     ELSE IF st.inSingleQuote \/ st.inDoubleQuote \/ st.inRegex
     THEN IF st.escaped THEN [st EXCEPT !.escaped = FALSE]
          ELSE IF char = "\\" THEN [st EXCEPT !.escaped = TRUE]
          ELSE IF st.inSingleQuote /\ char = "'"
          THEN [st EXCEPT !.inSingleQuote = FALSE, !.lastSignificant = "literal"]
          ELSE IF st.inDoubleQuote /\ char = "\""
          THEN [st EXCEPT !.inDoubleQuote = FALSE, !.lastSignificant = "literal"]
          ELSE IF st.inRegex /\ char = "/"
          THEN [st EXCEPT !.inRegex = FALSE, !.lastSignificant = "literal"]
          ELSE st
     ELSE IF char = "/" /\ next = "*" THEN [st EXCEPT !.inBlockComment = TRUE]
     ELSE IF char = "/" /\ next = "/" THEN [st EXCEPT !.inLineComment = TRUE]
     ELSE IF char = "'" THEN [st EXCEPT !.inSingleQuote = TRUE]
     ELSE IF char = "\"" THEN [st EXCEPT !.inDoubleQuote = TRUE]
     ELSE IF char = "/" /\ isRegexStart(st.lastSignificant)
     THEN [st EXCEPT !.inRegex = TRUE]
     ELSE IF ~isWhitespace(char)
     THEN [counted EXCEPT !.lastSignificant = char]
     ELSE counted

\* ------------------------------------------------------------------------
\* splitByTopLevelComma (src/src/parser-service.js:273-294)
\* ------------------------------------------------------------------------
\* one iteration of a loop that leaves a line comment at the end of its line
splitIterationResetAtNewline(l, s, i) ==
  LET st == advanceScannerState(IF s[i + 1] = "\n"
                                THEN [l.state EXCEPT !.inLineComment = FALSE]
                                ELSE l.state, s, i)
  IN IF s[i + 1] = "," /\ isTopLevel(st)
     THEN [start |-> i + 1,
           state |-> st,
           parts |-> Append(l.parts, Trim(Slice(s, l.start, i)))]
     ELSE [l EXCEPT !.state = st]

\* one iteration of the for loop at index i (0-based), on the loop's variables
\* l = [start, state, parts]
splitIteration(l, s, i) ==
  LET st == advanceScannerState(l.state, s, i)
  IN IF s[i + 1] = "," /\ isTopLevel(st)
     THEN [start |-> i + 1,
           state |-> st,
           parts |-> Append(l.parts, Trim(Slice(s, l.start, i)))]
     ELSE [l EXCEPT !.state = st]

\* the statements after the loop with the test of line 289 left out
splitTailKeepEmpty(l, s) ==
  Append(l.parts, Trim(Slice(s, l.start, Len(s))))

\* the statements after the loop: the tail is pushed unless it is empty
splitTail(l, s) ==
  LET tail == Trim(Slice(s, l.start, Len(s)))
  IN IF tail # <<>> THEN Append(l.parts, tail) ELSE l.parts

RECURSIVE splitLoop(_, _, _)
splitLoop(l, s, i) ==
  IF i >= Len(s) THEN l ELSE splitLoop(splitIteration(l, s, i), s, i + 1)

splitByTopLevelComma(s) ==
  splitTail(splitLoop([start |-> 0, state |-> createScannerState, parts |-> <<>>], s, 0), s)

\* ------------------------------------------------------------------------
\* parseValidatorParams (src/src/parser-service.js:246-271)
\* ------------------------------------------------------------------------
\* part.trim().match(/^(ID)(?:\s*:\s*(ID))?(?:\s*=\s*([\s\S]+))?$/)
matchParam(part) ==
  LET a == ScanIdent(part, 1)
      colon == SkipSpace(part, a)
      t == IF a > 0 /\ At(part, colon, <<":">>) THEN SkipSpace(part, colon + 1) ELSE 0
      b0 == IF t > 0 THEN ScanIdent(part, t) ELSE 0
      b == IF b0 > 0 THEN b0 ELSE a
      eq == SkipSpace(part, b)
      default == IF a > 0 /\ At(part, eq, <<"=">>) THEN RestGroup(part, eq + 1) ELSE NullStr
  IN IF a > 0 /\ default # NullStr
     THEN [ok |-> TRUE, g1 |-> SubSeq(part, 1, a - 1),
           g2 |-> IF b0 > 0 THEN SubSeq(part, t, b0 - 1) ELSE NullStr,
           g3 |-> default]
     ELSE IF a > 0 /\ b = Len(part) + 1
     THEN [ok |-> TRUE, g1 |-> SubSeq(part, 1, a - 1),
           g2 |-> IF b0 > 0 THEN SubSeq(part, t, b0 - 1) ELSE NullStr,
           g3 |-> NullStr]
     ELSE [ok |-> FALSE]

RECURSIVE parseParamParts(_, _, _)
\* the for loop of parseValidatorParams over parts, from index k
parseParamParts(partList, k, name) ==
  IF k > Len(partList) THEN Ok(<<>>)
  ELSE LET match == matchParam(Trim(partList[k]))
           rest == parseParamParts(partList, k + 1, name)
       IN IF ~match.ok THEN Thrown(ParseError([sourceName |-> name]))
          ELSE IF ~rest.ok THEN rest
          ELSE Ok(<<[name |-> match.g1,
                     typeName |-> match.g2,
                     defaultExpr |-> IF match.g3 = NullStr THEN NullStr
                                     ELSE Trim(match.g3)]>> \o rest.value)

parseValidatorParams(paramsChunk, name) ==
  LET raw == Trim(paramsChunk)
  IN IF raw = <<>> THEN Ok(<<>>)
     ELSE parseParamParts(splitByTopLevelComma(raw), 1, name)

\* ------------------------------------------------------------------------
\* The declaration grammars of parseString (src/src/parser-service.js:85-118)
\* ------------------------------------------------------------------------
\* statement.match(/^type\s+(ID)\s*=\s*([\s\S]+)$/)
matchType(statement) ==
  LET a == Len((* type *) <<"t", "y", "p", "e">>) + 1
      b == SkipSpace(statement, a)
      c == IF b > a THEN ScanIdent(statement, b) ELSE 0
      eq == SkipSpace(statement, c)
      rest == IF c > 0 /\ At(statement, eq, <<"=">>) THEN RestGroup(statement, eq + 1) ELSE NullStr
  IN IF startsWith(statement, (* type *) <<"t", "y", "p", "e">>) /\ rest # NullStr
     THEN [ok |-> TRUE, g1 |-> SubSeq(statement, b, c - 1), g2 |-> rest]
     ELSE [ok |-> FALSE]

\* \)\s*=\s*([\s\S]+)$ entered at p: the fourth group, or NullStr
matchValidatorTail(s, p) ==
  LET eq == SkipSpace(s, p + 1)
  IN IF At(s, p, <<")">>) /\ At(s, eq, <<"=">>) THEN RestGroup(s, eq + 1) ELSE NullStr

RECURSIVE firstValidatorTail(_, _)
\* the lazy ([\s\S]*?): the first position at or after p where the tail matches, or 0
firstValidatorTail(s, p) ==
  IF p > Len(s) THEN 0
  ELSE IF matchValidatorTail(s, p) # NullStr THEN p
  ELSE firstValidatorTail(s, p + 1)

\* statement.match(/^validator\s+(ID)\s*\(\s*(ID)(?:\s*,\s*([\s\S]*?))?\)\s*=\s*([\s\S]+)$/)
matchValidator(statement) ==
  LET a == Len((* validator *) <<"v", "a", "l", "i", "d", "a", "t", "o", "r">>) + 1
      b == SkipSpace(statement, a)
      c == IF b > a THEN ScanIdent(statement, b) ELSE 0
      open == SkipSpace(statement, c)
      d == IF c > 0 /\ At(statement, open, <<"(">>) THEN SkipSpace(statement, open + 1) ELSE 0
      e == IF d > 0 THEN ScanIdent(statement, d) ELSE 0
      comma == SkipSpace(statement, e)
      f == IF e > 0 /\ At(statement, comma, <<",">>) THEN SkipSpace(statement, comma + 1) ELSE 0
      close == IF f > 0 THEN firstValidatorTail(statement, f) ELSE 0
  IN IF ~startsWith(statement, (* validator *) <<"v", "a", "l", "i", "d", "a", "t", "o", "r">>) THEN [ok |-> FALSE]
     ELSE IF close > 0
     THEN [ok |-> TRUE,
           g1 |-> SubSeq(statement, b, c - 1),
           g2 |-> SubSeq(statement, d, e - 1),
           g3 |-> SubSeq(statement, f, close - 1),
           g4 |-> matchValidatorTail(statement, close)]
     ELSE IF e > 0 /\ matchValidatorTail(statement, e) # NullStr
     THEN [ok |-> TRUE,
           g1 |-> SubSeq(statement, b, c - 1),
           g2 |-> SubSeq(statement, d, e - 1),
           g3 |-> NullStr,
           g4 |-> matchValidatorTail(statement, e)]
     ELSE [ok |-> FALSE]

\* ------------------------------------------------------------------------
\* Inputs of parseString
\* ------------------------------------------------------------------------
\* the longest source assembled from LinePool, in lines
MaxLines == 3

LinePool ==
  { (* scedel-version 1.2 *) <<"s", "c", "e", "d", "e", "l", "-", "v", "e", "r", "s", "i", "o", "n", " ", "1", ".", "2">>,
    (* scedel-version 3.4.5 *) <<"s", "c", "e", "d", "e", "l", "-", "v", "e", "r", "s", "i", "o", "n", " ", "3", ".", "4", ".", "5">>,
    (* include 'p' *) <<"i", "n", "c", "l", "u", "d", "e", " ", "'", "p", "'">>,
    <<"@", "a">>,
    (* @b = 'v' *) <<"@", "b", " ", "=", " ", "'", "v", "'">>,
    (* @c on T.f *) <<"@", "c", " ", "o", "n", " ", "T", ".", "f">>,
    (* type A = x *) <<"t", "y", "p", "e", " ", "A", " ", "=", " ", "x">>,
    (* type 1A = x *) <<"t", "y", "p", "e", " ", "1", "A", " ", "=", " ", "x">>,
    (* validator A(B, c) = x *) <<"v", "a", "l", "i", "d", "a", "t", "o", "r", " ", "A", "(", "B", ",", " ", "c", ")", " ", "=", " ", "x">>,
    (*   include: S *) <<" ", " ", "i", "n", "c", "l", "u", "d", "e", ":", " ", "S">> }

RECURSIVE JoinLines(_, _)
\* the lines of ls joined by sep
JoinLines(ls, sep) ==
  IF ls = <<>> THEN <<>>
  ELSE IF Len(ls) = 1 THEN ls[1]
  ELSE ls[1] \o sep \o JoinLines(Tail(ls), sep)

PoolSources ==
  { JoinLines(ls, <<"\n">>) : ls \in UNION { [1..n -> LinePool] : n \in 0..MaxLines } }

\* sources outside the pool: the inputs of tests/parser-service.test.js, each failure
\* the grammar can raise, sources whose lines end in \r\n, text before the first
\* statement, targets that are no identifiers, and literals with escapes
ExtraSources ==
  { (* scedel-version 1.0\nscedel-version 1.1\ntype A = String *) <<"s", "c", "e", "d", "e", "l", "-", "v", "e", "r", "s", "i", "o", "n", " ", "1", ".", "0", "\n", "s", "c", "e", "d", "e", "l", "-", "v", "e", "r", "s", "i", "o", "n", " ", "1", ".", "1", "\n", "t", "y", "p", "e", " ", "A", " ", "=", " ", "S", "t", "r", "i", "n", "g">>,
    (* type Example = { include: String } *) <<"t", "y", "p", "e", " ", "E", "x", "a", "m", "p", "l", "e", " ", "=", " ", "{", " ", "i", "n", "c", "l", "u", "d", "e", ":", " ", "S", "t", "r", "i", "n", "g", " ", "}">>,
    (* type 1Example = String *) <<"t", "y", "p", "e", " ", "1", "E", "x", "a", "m", "p", "l", "e", " ", "=", " ", "S", "t", "r", "i", "n", "g">>,
    (* scedel-version 1 *) <<"s", "c", "e", "d", "e", "l", "-", "v", "e", "r", "s", "i", "o", "n", " ", "1">>,
    (* scedel-version 1.2 x *) <<"s", "c", "e", "d", "e", "l", "-", "v", "e", "r", "s", "i", "o", "n", " ", "1", ".", "2", " ", "x">>,
    (* scedel-version 1.2\n@a\ntype A = x\nscedel-version x *) <<"s", "c", "e", "d", "e", "l", "-", "v", "e", "r", "s", "i", "o", "n", " ", "1", ".", "2", "\n", "@", "a", "\n", "t", "y", "p", "e", " ", "A", " ", "=", " ", "x", "\n", "s", "c", "e", "d", "e", "l", "-", "v", "e", "r", "s", "i", "o", "n", " ", "x">>,
    (* include p *) <<"i", "n", "c", "l", "u", "d", "e", " ", "p">>,
    (* @c on . *) <<"@", "c", " ", "o", "n", " ", ".">>,
    <<"@", "1", "a">>,
    (* @js.ignore on Post.internalNote *) <<"@", "j", "s", ".", "i", "g", "n", "o", "r", "e", " ", "o", "n", " ", "P", "o", "s", "t", ".", "i", "n", "t", "e", "r", "n", "a", "l", "N", "o", "t", "e">>,
    (* @d = "w" on T.{f, g} *) <<"@", "d", " ", "=", " ", "\"", "w", "\"", " ", "o", "n", " ", "T", ".", "{", "f", ",", " ", "g", "}">>,
    (* validator Int(odd) = x *) <<"v", "a", "l", "i", "d", "a", "t", "o", "r", " ", "I", "n", "t", "(", "o", "d", "d", ")", " ", "=", " ", "x">>,
    (* validator 1A(B) = x *) <<"v", "a", "l", "i", "d", "a", "t", "o", "r", " ", "1", "A", "(", "B", ")", " ", "=", " ", "x">>,
    (* validator A(1B, c) = x *) <<"v", "a", "l", "i", "d", "a", "t", "o", "r", " ", "A", "(", "1", "B", ",", " ", "c", ")", " ", "=", " ", "x">>,
    (* validator A(B, c: T = f(1, 2), d) = x *) <<"v", "a", "l", "i", "d", "a", "t", "o", "r", " ", "A", "(", "B", ",", " ", "c", ":", " ", "T", " ", "=", " ", "f", "(", "1", ",", " ", "2", ")", ",", " ", "d", ")", " ", "=", " ", "x">>,
    (* validator A(B, 1c) = x *) <<"v", "a", "l", "i", "d", "a", "t", "o", "r", " ", "A", "(", "B", ",", " ", "1", "c", ")", " ", "=", " ", "x">>,
    (* validator A(B) x *) <<"v", "a", "l", "i", "d", "a", "t", "o", "r", " ", "A", "(", "B", ")", " ", "x">>,
    (* @a\n@b = 'v'\n@c on T.f\ntype A = x\n@c on T\nvalidator A(B, c) = x\ntype B = y *) <<"@", "a", "\n", "@", "b", " ", "=", " ", "'", "v", "'", "\n", "@", "c", " ", "o", "n", " ", "T", ".", "f", "\n", "t", "y", "p", "e", " ", "A", " ", "=", " ", "x", "\n", "@", "c", " ", "o", "n", " ", "T", "\n", "v", "a", "l", "i", "d", "a", "t", "o", "r", " ", "A", "(", "B", ",", " ", "c", ")", " ", "=", " ", "x", "\n", "t", "y", "p", "e", " ", "B", " ", "=", " ", "y">>,
    (* text\n\n@a\r\ntype A = x\r\n *) <<"t", "e", "x", "t", "\n", "\n", "@", "a", "\r", "\n", "t", "y", "p", "e", " ", "A", " ", "=", " ", "x", "\r", "\n">>,
    (* @a\r\n@b\r\n@cc\r\n@d *) <<"@", "a", "\r", "\n", "@", "b", "\r", "\n", "@", "c", "c", "\r", "\n", "@", "d">>,
    (* x\r\ny\r\nz\r\n@a *) <<"x", "\r", "\n", "y", "\r", "\n", "z", "\r", "\n", "@", "a">>,
    (* text\n  type B = y\n@a\ntype A = x *) <<"t", "e", "x", "t", "\n", " ", " ", "t", "y", "p", "e", " ", "B", " ", "=", " ", "y", "\n", "@", "a", "\n", "t", "y", "p", "e", " ", "A", " ", "=", " ", "x">>,
    (* @c on 1T.f-g *) <<"@", "c", " ", "o", "n", " ", "1", "T", ".", "f", "-", "g">>,
    (* @c on T f *) <<"@", "c", " ", "o", "n", " ", "T", " ", "f">>,
    (* @e = ""\n@e = 'it\'s'\ntype A = x *) <<"@", "e", " ", "=", " ", "\"", "\"", "\n", "@", "e", " ", "=", " ", "'", "i", "t", "\\", "'", "s", "'", "\n", "t", "y", "p", "e", " ", "A", " ", "=", " ", "x">>,
    (* include "a\nb" *) <<"i", "n", "c", "l", "u", "d", "e", " ", "\"", "a", "\\", "n", "b", "\"">> }

Sources == PoolSources \cup ExtraSources

SourceNames == {"inline.scedel", "dup.scedel"}

\* ------------------------------------------------------------------------
\* parseString (src/src/parser-service.js:35-132)
\* ------------------------------------------------------------------------
\* the branch of the if chain that takes the statement (lines 44, 64, 74, 85, 100, 120)
dispatch(statement) ==
  IF startsWith(statement, (* scedel-version *) <<"s", "c", "e", "d", "e", "l", "-", "v", "e", "r", "s", "i", "o", "n">>) THEN "version"
  ELSE IF startsWith(statement, (* include *) <<"i", "n", "c", "l", "u", "d", "e">>) THEN "include"
  ELSE IF startsWith(statement, <<"@">>) THEN "annotation"
  ELSE IF startsWith(statement, (* type  *) <<"t", "y", "p", "e", " ">>) THEN "type"
  ELSE IF startsWith(statement, (* validator  *) <<"v", "a", "l", "i", "d", "a", "t", "o", "r", " ">>) THEN "validator"
  ELSE "unsupported"

\* the duplicate test left out
versionAlreadySetNever(v) == FALSE

\* version !== null (line 53)
versionAlreadySet(v) == v # Null

\* the elements returned without being removed
spliceAllCopy(list) == [removed |-> list, remaining |-> list]

\* pendingAnnotations.splice(0): every element is removed and returned
spliceAll(list) == [removed |-> list, remaining |-> <<>>]

\* the object returned at lines 125-131
Document(name, v, incs, stmts) ==
  [kind |-> "file", sourceName |-> name, version |-> v, includes |-> incs,
   statements |-> stmts]

statement == statements[idx]

InLoop == pc = "running" /\ idx <= Len(statements)

\* the error recorded and the loop going on
ThrowAndContinue(e) ==
  /\ error' = e
  /\ idx' = idx + 1
  /\ UNCHANGED <<source, sourceName, statements, version, includes, fileStatements,
                 pendingAnnotations, pc, document, splitVars, targetVars, history>>

\* throw: the call ends, nothing is returned
Throw(e) ==
  /\ pc' = "failed"
  /\ error' = e
  /\ UNCHANGED <<source, sourceName, statements, idx, version, includes,
                 fileStatements, pendingAnnotations, document, splitVars, targetVars, history>>

\* continue: the loop moves to the next statement
Continue ==
  /\ idx' = idx + 1
  /\ UNCHANGED <<source, sourceName, statements, pc, error, document, splitVars,
                 targetVars, history>>

\* what a finished call gave its caller: the Document returned or the error thrown
Outcome ==
  [source |-> source, sourceName |-> sourceName, document |-> document, error |-> error]

\* the locals of the earlier call kept, as fields of the parser would be
ParseStringKeepLocals(src, name) ==
  /\ pc # "running"
  /\ source' = src
  /\ sourceName' = name
  /\ statements' = splitTopLevelStatements(src)
  /\ idx' = 1
  /\ pc' = "running"
  /\ error' = Null
  /\ document' = Null
  /\ history' = IF pc = "idle" THEN history ELSE Append(history, Outcome)
  /\ UNCHANGED <<version, includes, fileStatements, pendingAnnotations, splitVars,
                 targetVars>>

\* a call of parseString(src, name), the first one or one that follows a call that
\* has returned or thrown: lines 36-41. The locals are created anew; the call has no
\* outcome yet.
ParseString(src, name) ==
  /\ pc # "running"
  /\ source' = src
  /\ sourceName' = name
  /\ statements' = splitTopLevelStatements(src)
  /\ idx' = 1
  /\ version' = Null
  /\ includes' = <<>>
  /\ fileStatements' = <<>>
  /\ pendingAnnotations' = <<>>
  /\ pc' = "running"
  /\ error' = Null
  /\ document' = Null
  /\ history' = IF pc = "idle" THEN history ELSE Append(history, Outcome)
  /\ UNCHANGED <<splitVars, targetVars>>

\* lines 44-62
VersionStatement ==
  /\ InLoop
  /\ dispatch(statement) = "version"
  /\ LET match == matchVersionDirective(statement)
         parsed == parseVersionLiteral(match.g1, sourceName)
     IN IF ~match.ok
        THEN Throw(ParseError([sourceName |-> sourceName, code |-> "InvalidVersionDirective"]))
        ELSE IF versionAlreadySet(version)
        THEN Throw(ParseError([sourceName |-> sourceName, code |-> "InvalidVersionDirective"]))
        ELSE IF ~parsed.ok
        THEN Throw(parsed.error)
        ELSE /\ version' = parsed.value
             /\ Continue
             /\ UNCHANGED <<includes, fileStatements, pendingAnnotations>>

\* lines 64-72
IncludeStatement ==
  /\ InLoop
  /\ dispatch(statement) = "include"
  /\ LET match == matchInclude(statement)
         decoded == decodeStringLiteral(match.g1)
     IN IF ~match.ok
        THEN Throw(ParseError([sourceName |-> sourceName]))
        ELSE IF ~decoded.ok
        THEN Throw(decoded.error)
        ELSE /\ includes' = Append(includes, [kind |-> "include", path |-> decoded.value])
             /\ Continue
             /\ UNCHANGED <<version, fileStatements, pendingAnnotations>>

\* every annotation kept for the next declaration, targeted or not
AnnotationStatementAllPending ==
  /\ InLoop
  /\ dispatch(statement) = "annotation"
  /\ LET parsed == parseAnnotationStatement(statement, sourceName)
     IN IF ~parsed.ok
        THEN Throw(parsed.error)
        ELSE /\ pendingAnnotations' = Append(pendingAnnotations, parsed.value.annotation)
             /\ Continue
             /\ UNCHANGED <<version, includes, fileStatements>>

\* lines 74-83
AnnotationStatement ==
  /\ InLoop
  /\ dispatch(statement) = "annotation"
  /\ LET parsed == parseAnnotationStatement(statement, sourceName)
     IN IF ~parsed.ok
        THEN Throw(parsed.error)
        ELSE IF parsed.value.kind = "targetedAnnotation"
        THEN /\ fileStatements' = Append(fileStatements, parsed.value)
             /\ Continue
             /\ UNCHANGED <<version, includes, pendingAnnotations>>
        ELSE /\ pendingAnnotations' = Append(pendingAnnotations, parsed.value.annotation)
             /\ Continue
             /\ UNCHANGED <<version, includes, fileStatements>>

\* lines 85-98
TypeStatement ==
  /\ InLoop
  /\ dispatch(statement) = "type"
  /\ LET match == matchType(statement)
         spliced == spliceAll(pendingAnnotations)
     IN IF ~match.ok
        THEN Throw(ParseError([sourceName |-> sourceName]))
        ELSE /\ fileStatements' = Append(fileStatements,
                                         [kind |-> "typeDeclaration",
                                          name |-> match.g1,
                                          typeExpr |-> Trim(match.g2),
                                          annotations |-> spliced.removed])
             /\ pendingAnnotations' = spliced.remaining
             /\ Continue
             /\ UNCHANGED <<version, includes>>

\* the two identifiers exchanged
validatorDeclarationSwapped(match, params, annotations) ==
  [kind |-> "validatorDeclaration",
   targetType |-> match.g2,
   name |-> match.g1,
   params |-> params,
   body |-> Trim(match.g4),
   annotations |-> annotations]

\* the node pushed at lines 109-116
validatorDeclaration(match, params, annotations) ==
  [kind |-> "validatorDeclaration",
   targetType |-> match.g1,
   name |-> match.g2,
   params |-> params,
   body |-> Trim(match.g4),
   annotations |-> annotations]

\* lines 100-118
ValidatorStatement ==
  /\ InLoop
  /\ dispatch(statement) = "validator"
  /\ LET match == matchValidator(statement)
         params == parseValidatorParams(IF match.g3 = NullStr THEN <<>> ELSE match.g3,
                                        sourceName)
         spliced == spliceAll(pendingAnnotations)
     IN IF ~match.ok
        THEN Throw(ParseError([sourceName |-> sourceName]))
        ELSE IF ~params.ok
        THEN Throw(params.error)
        ELSE /\ fileStatements' = Append(fileStatements,
                                         validatorDeclaration(match, params.value,
                                                              spliced.removed))
             /\ pendingAnnotations' = spliced.remaining
             /\ Continue
             /\ UNCHANGED <<version, includes>>

\* lines 120-122
UnsupportedStatement ==
  /\ InLoop
  /\ dispatch(statement) = "unsupported"
  /\ Throw(ParseError([sourceName |-> sourceName]))

\* the Document returned with the pending annotations as entries of its own
ReturnDocumentKeepPending ==
  /\ pc = "running"
  /\ idx > Len(statements)
  /\ pc' = "done"
  /\ document' = Document(sourceName, version, includes,
                          fileStatements \o [k \in 1..Len(pendingAnnotations) |->
                            [kind |-> "annotation", annotation |-> pendingAnnotations[k]]])
  /\ UNCHANGED <<source, sourceName, statements, idx, version, includes,
                 fileStatements, pendingAnnotations, error, splitVars, targetVars, history>>

\* lines 125-131: the loop is over, the Document is returned
ReturnDocument ==
  /\ pc = "running"
  /\ idx > Len(statements)
  /\ pc' = "done"
  /\ document' = Document(sourceName, version, includes, fileStatements)
  /\ UNCHANGED <<source, sourceName, statements, idx, version, includes,
                 fileStatements, pendingAnnotations, error, splitVars, targetVars, history>>

\* ------------------------------------------------------------------------
\* A call of splitByTopLevelComma, one loop iteration at a time
\* ------------------------------------------------------------------------
\* the longest span enumerated exhaustively over SpanAlphabet
MaxSpanLen == 4

SpanAlphabet == {"a", ",", " ", "'", "\\", "/", "(", ")", "*"}

SpanExamples ==
  { (* a, f(b, c), d *) <<"a", ",", " ", "f", "(", "b", ",", " ", "c", ")", ",", " ", "d">>,
    (* a = "x,y", b *) <<"a", " ", "=", " ", "\"", "x", ",", "y", "\"", ",", " ", "b">>,
    (* a = [1, 2], b *) <<"a", " ", "=", " ", "[", "1", ",", " ", "2", "]", ",", " ", "b">>,
    (* a = {k: 1, l: 2}, b *) <<"a", " ", "=", " ", "{", "k", ":", " ", "1", ",", " ", "l", ":", " ", "2", "}", ",", " ", "b">>,
    (* a = /[,]\//, b *) <<"a", " ", "=", " ", "/", "[", ",", "]", "\\", "/", "/", ",", " ", "b">>,
    (* a = 1 / 2, b = 3 / 4 *) <<"a", " ", "=", " ", "1", " ", "/", " ", "2", ",", " ", "b", " ", "=", " ", "3", " ", "/", " ", "4">>,
    (* a = 'it\'s, ok', b *) <<"a", " ", "=", " ", "'", "i", "t", "\\", "'", "s", ",", " ", "o", "k", "'", ",", " ", "b">>,
    (* a = ), b *) <<"a", " ", "=", " ", ")", ",", " ", "b">>,
    (* a ] } ), [b, {c, (d"]", e *) <<"a", " ", "]", " ", "}", " ", ")", ",", " ", "[", "b", ",", " ", "{", "c", ",", " ", "(", "d", "\"", "]", "\"", ",", " ", "e">>,
    (* a /* x, y */, b *) <<"a", " ", "/", "*", " ", "x", ",", " ", "y", " ", "*", "/", ",", " ", "b">>,
    (* a = /* c */ 1, b *) <<"a", " ", "=", " ", "/", "*", " ", "c", " ", "*", "/", " ", "1", ",", " ", "b">>,
    (* a // x, y\n, b *) <<"a", " ", "/", "/", " ", "x", ",", " ", "y", "\n", ",", " ", "b">>,
    (* a, b, *) <<"a", ",", " ", "b", ",">> }

SpanInputs ==
  UNION { [1..n -> SpanAlphabet] : n \in 0..MaxSpanLen } \cup SpanExamples

SplitStep ==
  /\ spc = "scan"
  /\ pos < Len(input)
  /\ LET l == splitIteration([start |-> start, state |-> state, parts |-> parts], input, pos)
     IN /\ start' = l.start
        /\ state' = l.state
        /\ parts' = l.parts
  /\ pos' = pos + 1
  /\ UNCHANGED <<input, spc, parseVars, targetVars, history>>

SplitReturn ==
  /\ spc = "scan"
  /\ pos >= Len(input)
  /\ parts' = splitTail([start |-> start, state |-> state, parts |-> parts], input)
  /\ spc' = "done"
  /\ UNCHANGED <<input, pos, start, state, parseVars, targetVars, history>>

\* ------------------------------------------------------------------------
\* A call of parseAnnotationTarget
\* ------------------------------------------------------------------------
\* the longest target text enumerated exhaustively over TargetAlphabet
MaxTargetLen == 5

TargetAlphabet == {"T", "f", ".", "{", "}", ",", " "}

TargetExamples ==
  { (* Post.internalNote *) <<"P", "o", "s", "t", ".", "i", "n", "t", "e", "r", "n", "a", "l", "N", "o", "t", "e">>,
    (* Post.{a, b} *) <<"P", "o", "s", "t", ".", "{", "a", ",", " ", "b", "}">>,
    (* Post *) <<"P", "o", "s", "t">>,
    (* T.{f ,f,  T} *) <<"T", ".", "{", "f", " ", ",", "f", ",", " ", " ", "T", "}">>,
    (* T . f. T .f *) <<"T", " ", ".", " ", "f", ".", " ", "T", " ", ".", "f">>,
    (* T.f.{f} *) <<"T", ".", "f", ".", "{", "f", "}">> }

\* parseAnnotationStatement passes match[3].trim()
TargetInputs ==
  { t \in UNION { [1..n -> TargetAlphabet] : n \in 0..MaxTargetLen } : Trim(t) = t }
    \cup TargetExamples

ParseAnnotationTarget ==
  /\ tpc = "idle"
  /\ LET parsed == parseAnnotationTarget(rawTarget, "inline.scedel")
     IN IF parsed.ok
        THEN /\ target' = parsed.value
             /\ tpc' = "done"
             /\ UNCHANGED targetError
        ELSE /\ targetError' = parsed.error
             /\ tpc' = "failed"
             /\ UNCHANGED target
  /\ UNCHANGED <<rawTarget, parseVars, splitVars, history>>

\* ------------------------------------------------------------------------
\* Specifications
\* ------------------------------------------------------------------------
ParseIdle ==
  /\ source = <<>>
  /\ sourceName = ""
  /\ statements = <<>>
  /\ idx = 1
  /\ version = Null
  /\ includes = <<>>
  /\ fileStatements = <<>>
  /\ pendingAnnotations = <<>>
  /\ pc = "idle"
  /\ error = Null
  /\ document = Null
  /\ history = <<>>

SplitIdle ==
  /\ input = <<>>
  /\ pos = 0
  /\ start = 0
  /\ state = createScannerState
  /\ parts = <<>>
  /\ spc = "idle"

TargetIdle ==
  /\ rawTarget = <<>>
  /\ target = Null
  /\ targetError = Null
  /\ tpc = "off"

\* parseString on every source of Sources
Init == ParseIdle /\ SplitIdle /\ TargetIdle

Next ==
  \/ pc = "idle" /\ \E src \in Sources, name \in SourceNames : ParseString(src, name)
  \/ VersionStatement
  \/ IncludeStatement
  \/ AnnotationStatement
  \/ TypeStatement
  \/ ValidatorStatement
  \/ UnsupportedStatement
  \/ ReturnDocument

Spec == Init /\ [][Next]_vars

\* splitByTopLevelComma on every span of SpanInputs
InitSplit ==
  /\ ParseIdle
  /\ TargetIdle
  /\ input \in SpanInputs
  /\ pos = 0
  /\ start = 0
  /\ state = createScannerState
  /\ parts = <<>>
  /\ spc = "scan"

NextSplit ==
  \/ SplitStep
  \/ SplitReturn

SpecSplit == InitSplit /\ [][NextSplit]_vars

\* parseAnnotationTarget on every text of TargetInputs
InitTarget ==
  /\ ParseIdle
  /\ SplitIdle
  /\ rawTarget \in TargetInputs
  /\ target = Null
  /\ targetError = Null
  /\ tpc = "idle"

NextTarget == ParseAnnotationTarget

SpecTarget == InitTarget /\ [][NextTarget]_vars

\* ========================================================================
\* Properties
\* ========================================================================
\* What a statement chunk is, read off its text
IsVersionStatement(c) == startsWith(c, (* scedel-version *) <<"s", "c", "e", "d", "e", "l", "-", "v", "e", "r", "s", "i", "o", "n">>)
IsTypeStatement(c) == startsWith(c, (* type  *) <<"t", "y", "p", "e", " ">>)
IsValidatorStatement(c) == startsWith(c, (* validator  *) <<"v", "a", "l", "i", "d", "a", "t", "o", "r", " ">>)
IsDeclarationStatement(c) == IsTypeStatement(c) \/ IsValidatorStatement(c)
IsAnnotationStatement(c) == startsWith(c, <<"@">>)

\* the indices of the chunks of the current call that satisfy Test
ChunksWhere(Test(_)) == { j \in 1..Len(statements) : Test(statements[j]) }

\* the chunks the loop has dealt with successfully so far
Processed == 1..(idx - 1)

Terminated == pc \in {"done", "failed"}

AllDigits(t) == t # <<>> /\ \A k \in 1..Len(t) : t[k] \in Digits

RECURSIVE Power10(_)
Power10(n) == IF n = 0 THEN 1 ELSE 10 * Power10(n - 1)

RECURSIVE Decimal(_)
\* the number a digit string denotes: each digit weighted by its place
Decimal(t) ==
  IF t = <<>> THEN 0
  ELSE DigitValue(t[1]) * Power10(Len(t) - 1) + Decimal(Tail(t))

\* the literal of a version statement: what follows the keyword, without the spaces
\* around it
VersionLiteralOf(c) == Trim(SubSeq(c, Len((* scedel-version *) <<"s", "c", "e", "d", "e", "l", "-", "v", "e", "r", "s", "i", "o", "n">>) + 1, Len(c)))

\* a well-formed `scedel-version X.Y[.Z]` statement
WellFormedVersion(c) ==
  LET ps == SplitOn(VersionLiteralOf(c), ".", 1, 1)
  IN /\ IsVersionStatement(c)
     /\ Len(c) > Len((* scedel-version *) <<"s", "c", "e", "d", "e", "l", "-", "v", "e", "r", "s", "i", "o", "n">>)
     /\ IsSpace(c[Len((* scedel-version *) <<"s", "c", "e", "d", "e", "l", "-", "v", "e", "r", "s", "i", "o", "n">>) + 1])
     /\ Len(ps) \in {2, 3}
     /\ \A k \in 1..Len(ps) : AllDigits(ps[k])

\* {major: X, minor: Y, patch: Z, or 0 when Z is omitted}
WrittenVersion(c) ==
  LET ps == SplitOn(VersionLiteralOf(c), ".", 1, 1)
  IN [major |-> Decimal(ps[1]),
      minor |-> Decimal(ps[2]),
      patch |-> IF Len(ps) = 3 THEN Decimal(ps[3]) ELSE 0]

VersionChunks == ChunksWhere(IsVersionStatement)

\* the index of the second scedel-version statement of the source
SecondVersionChunk ==
  CHOOSE j \in VersionChunks : Cardinality({ k \in VersionChunks : k < j }) = 1

\* C1, first part: a source with exactly one scedel-version statement, well formed,
\* gives a Document whose version is the written {X, Y, Z-or-0}.
C1_SingleVersion ==
  (pc = "done" /\ Cardinality(VersionChunks) = 1)
    => \A j \in VersionChunks :
         WellFormedVersion(statements[j]) => document.version = WrittenVersion(statements[j])

\* C1 as stated, second part: a source that begins with a scedel-version statement and
\* holds a second one always fails with code InvalidVersionDirective, whatever
\* statements lie between or after them.
C1_DuplicateAlwaysInvalidVersion ==
  (Terminated /\ Cardinality(VersionChunks) >= 2 /\ 1 \in VersionChunks)
    => (pc = "failed" /\ error.code = "InvalidVersionDirective")

\* C1 amended, second part: a source with a second scedel-version statement always
\* fails, no later than at that statement; the code is InvalidVersionDirective when
\* the parse fails at a scedel-version statement, which it does whenever every other
\* statement before the second directive is well formed.
C1_DuplicateFails ==
  (Terminated /\ Cardinality(VersionChunks) >= 2)
    => /\ pc = "failed"
       /\ idx <= SecondVersionChunk
       /\ IsVersionStatement(statements[idx]) <=> error.code = "InvalidVersionDirective"

\* C1 as stated: one well-formed scedel-version statement gives the written version,
\* and a second one always fails with code InvalidVersionDirective.
C1_AsStated == C1_SingleVersion /\ C1_DuplicateAlwaysInvalidVersion

\* C1, third part: within a parse the version is assigned only while it is null.
C1_AssignedOnce == version # version' => version = Null

\* C1 (amended): exactly one well-formed scedel-version statement gives the written
\* version; a second scedel-version statement makes parseString fail, with code
\* InvalidVersionDirective unless an earlier statement of another kind fails first;
\* the version goes from null to a value at most once per parse.
C1_Version ==
  /\ [](C1_SingleVersion /\ C1_DuplicateFails)
  /\ [][C1_AssignedOnce]_vars

\* a duplicate directive, separated from the first by another statement, is rejected
C1_Witness ==
  /\ pc = "failed"
  /\ Cardinality(VersionChunks) = 2
  /\ idx = SecondVersionChunk
  /\ idx >= 3
  /\ WellFormedVersion(statements[1])
  /\ version = WrittenVersion(statements[1])
  /\ error.code = "InvalidVersionDirective"

\* ------------------------------------------------------------------------
\* C2, C3: where annotations and declarations go
\* ------------------------------------------------------------------------
\* an annotation statement written with / without an `on <target>` clause
IsTargetedStatement(c) ==
  IsAnnotationStatement(c) /\ matchAnnotation(c).ok /\ matchAnnotation(c).g3 # NullStr
IsUntargetedStatement(c) ==
  IsAnnotationStatement(c) /\ matchAnnotation(c).ok /\ matchAnnotation(c).g3 = NullStr

\* a statement that becomes an entry of Document.statements
IsEmittedStatement(c) == IsDeclarationStatement(c) \/ IsTargetedStatement(c)

\* the Annotation {key, value} an annotation statement denotes
AnnotationOf(c) == parseAnnotationStatement(c, sourceName).value.annotation

RECURSIVE Ascending(_, _, _)
\* the members of the set S of chunk indices that lie in from..to, in source order
Ascending(S, from, to) ==
  IF from > to THEN <<>>
  ELSE (IF from \in S THEN <<from>> ELSE <<>>) \o Ascending(S, from + 1, to)

\* the identifier written right after the keyword of a declaration statement
DeclaredName(c) ==
  LET a == SkipSpace(c, SkipNonSpace(c, 1))
  IN SubSeq(c, a, SkipIdentPart(c, a) - 1)

\* the last declaration statement before chunk j, 0 when there is none
PreviousDeclaration(j) ==
  LET before == { i \in ChunksWhere(IsDeclarationStatement) : i < j }
  IN IF before = {} THEN 0 ELSE CHOOSE i \in before : \A h \in before : h <= i

\* the untargeted annotations written after the previous declaration (or the start of
\* the source) and before chunk j, in written order
WrittenAnnotationsBefore(j) ==
  LET between == Ascending(ChunksWhere(IsUntargetedStatement), PreviousDeclaration(j) + 1, j - 1)
  IN [k \in 1..Len(between) |-> AnnotationOf(statements[between[k]])]

\* node is the entry that chunk j contributes to Document.statements
EntryOfChunk(node, j) ==
  LET c == statements[j]
  IN IF IsTypeStatement(c)
     THEN /\ node.kind = "typeDeclaration"
          /\ node.name = DeclaredName(c)
          /\ node.annotations = WrittenAnnotationsBefore(j)
     ELSE IF IsValidatorStatement(c)
     THEN /\ node.kind = "validatorDeclaration"
          /\ DeclaredName(c) \in {node.name, node.targetType}
          /\ node.annotations = WrittenAnnotationsBefore(j)
     ELSE /\ node.kind = "targetedAnnotation"
          /\ node.annotation = AnnotationOf(c)

\* C2: in a returned Document, statements lists the type declarations, validator
\* declarations and targeted annotations in source order, and every declaration
\* carries exactly the untargeted annotations written since the previous declaration,
\* in written order, whatever lies between them; no annotation is attached twice.
C2_StatementsAndAnnotations ==
  pc = "done" =>
    LET emitted == Ascending(ChunksWhere(IsEmittedStatement), 1, Len(statements))
    IN /\ Len(document.statements) = Len(emitted)
       /\ \A k \in 1..Len(emitted) : EntryOfChunk(document.statements[k], emitted[k])

\* two annotations attach to the declaration that follows them across a targeted
\* annotation, and the declarations after it start with none
C2_Witness ==
  /\ pc = "done"
  /\ Len(document.statements) >= 4
  /\ \E k \in 1..(Len(document.statements) - 1) :
       /\ document.statements[k].kind = "targetedAnnotation"
       /\ document.statements[k + 1].kind = "typeDeclaration"
       /\ Len(document.statements[k + 1].annotations) = 2
       /\ document.statements[k + 1].annotations[1] # document.statements[k + 1].annotations[2]
       /\ \E h \in (k + 2)..Len(document.statements) :
            /\ document.statements[h].kind = "validatorDeclaration"
            /\ document.statements[h].annotations = <<>>

\* the annotations attached to the declarations of a list of entries, in order
RECURSIVE AttachedAnnotations(_)
AttachedAnnotations(entries) ==
  IF entries = <<>> THEN <<>>
  ELSE (IF Head(entries).kind = "targetedAnnotation" THEN <<>> ELSE Head(entries).annotations)
       \o AttachedAnnotations(Tail(entries))

\* C3: an annotation written with an `on` clause is never in the pending buffer nor in
\* a declaration's annotations; it is one entry of kind targetedAnnotation of the
\* statements, at its source position. An annotation without `on` is never an entry.
C3_TargetedAnnotations ==
  pc # "idle" =>
    LET emitted == Ascending(ChunksWhere(IsEmittedStatement), 1, idx - 1)
        untargeted == Ascending(ChunksWhere(IsUntargetedStatement), 1, idx - 1)
    IN /\ Len(fileStatements) = Len(emitted)
       /\ \A k \in 1..Len(emitted) :
            IsTargetedStatement(statements[emitted[k]])
              <=> fileStatements[k].kind = "targetedAnnotation"
       /\ \A k \in 1..Len(emitted) :
            fileStatements[k].kind = "targetedAnnotation"
              => fileStatements[k].annotation = AnnotationOf(statements[emitted[k]])
       /\ \A k \in 1..Len(emitted) :
            fileStatements[k].kind
              \in {"targetedAnnotation", "typeDeclaration", "validatorDeclaration"}
       /\ AttachedAnnotations(fileStatements) \o pendingAnnotations
            = [k \in 1..Len(untargeted) |-> AnnotationOf(statements[untargeted[k]])]
       /\ pc = "done" => document.statements = fileStatements

\* a targeted annotation written between pending annotations and their declaration
C3_Witness ==
  /\ pc = "done"
  /\ Len(fileStatements) >= 2
  /\ fileStatements[1].kind = "targetedAnnotation"
  /\ fileStatements[2].kind = "typeDeclaration"
  /\ Len(fileStatements[2].annotations) = 1
  /\ IsUntargetedStatement(statements[1])
  /\ IsTargetedStatement(statements[2])

\* ------------------------------------------------------------------------
\* C4, C5: failures
\* ------------------------------------------------------------------------
IsIncludeStatement(c) == startsWith(c, (* include *) <<"i", "n", "c", "l", "u", "d", "e">>)

\* chunk j is a statement the grammar rejects, or a scedel-version statement that
\* follows another one
StatementFails(j) ==
  LET c == statements[j]
  IN IF IsVersionStatement(c)
     THEN \/ ~matchVersionDirective(c).ok
          \/ \E i \in 1..(j - 1) : IsVersionStatement(statements[i])
          \/ ~parseVersionLiteral(matchVersionDirective(c).g1, sourceName).ok
     ELSE IF IsIncludeStatement(c) THEN ~matchInclude(c).ok
     ELSE IF IsAnnotationStatement(c) THEN ~parseAnnotationStatement(c, sourceName).ok
     ELSE IF IsTypeStatement(c) THEN ~matchType(c).ok
     ELSE IF IsValidatorStatement(c)
     THEN \/ ~matchValidator(c).ok
          \/ ~parseValidatorParams(IF matchValidator(c).g3 = NullStr THEN <<>>
                                   ELSE matchValidator(c).g3, sourceName).ok
     ELSE TRUE

C4_Outcome ==
  /\ pc = "running" =>
       /\ document = Null
       /\ error = Null
       /\ \A j \in Processed : ~StatementFails(j)
  /\ pc = "failed" =>
       /\ idx \in 1..Len(statements)
       /\ StatementFails(idx)
       /\ \A j \in Processed : ~StatementFails(j)
       /\ error # Null
       /\ error.name = "ParseError"
       /\ document = Null
  /\ pc = "done" =>
       /\ idx = Len(statements) + 1
       /\ \A j \in 1..Len(statements) : ~StatementFails(j)
       /\ error = Null
       /\ document # Null

\* once parseString has thrown, nothing more happens in the call
C4_StopsAtFailure == pc = "failed" => UNCHANGED parseVars

\* C4: parseString stops at the first statement chunk that fails: it raises a
\* ParseError at that chunk, processes no later chunk and returns no Document; a
\* Document is returned only after every chunk has been processed successfully.
C4_FirstFailureAborts ==
  /\ []C4_Outcome
  /\ [][C4_StopsAtFailure]_vars

\* a parse that fails after it has processed a declaration, with a statement left
C4_Witness ==
  /\ pc = "failed"
  /\ idx >= 2
  /\ idx < Len(statements)
  /\ fileStatements # <<>>
  /\ document = Null

\* the `on` clause of an annotation statement resolves to no identifier segment: its
\* target text holds nothing but dots and spaces
ZeroSegmentTarget(c) ==
  /\ IsTargetedStatement(c)
  /\ \A k \in 1..Len(matchAnnotation(c).g3) :
       matchAnnotation(c).g3[k] = "." \/ IsSpace(matchAnnotation(c).g3[k])

\* C5: every failure of parseString is a ParseError with line, column and
\* offendingToken null; its code is InvalidVersionDirective (category ParseError)
\* exactly when the failing chunk is a scedel-version statement, InvalidAnnotationTarget
\* (category SemanticError) exactly when an `on` target resolves to zero segments, and
\* InvalidExpression (category ParseError) for every other failure.
C5_ErrorClassification ==
  pc = "failed" =>
    LET c == statements[idx]
    IN /\ error.name = "ParseError"
       /\ error.line = "null"
       /\ error.column = "null"
       /\ error.offendingToken = "null"
       /\ IF IsVersionStatement(c)
          THEN error.code = "InvalidVersionDirective" /\ error.category = "ParseError"
          ELSE IF ZeroSegmentTarget(c)
          THEN error.code = "InvalidAnnotationTarget" /\ error.category = "SemanticError"
          ELSE error.code = "InvalidExpression" /\ error.category = "ParseError"

\* an `on` clause whose target is a lone dot
C5_Witness ==
  /\ pc = "failed"
  /\ ZeroSegmentTarget(statements[idx])
  /\ error.code = "InvalidAnnotationTarget"
  /\ error.category = "SemanticError"

\* ------------------------------------------------------------------------
\* C6, C7: declarations
\* ------------------------------------------------------------------------
\* the least member of a non-empty set of positions, 0 for the empty set
Least(S) == IF S = {} THEN 0 ELSE CHOOSE p \in S : \A q \in S : p <= q

\* [A-Za-z_][A-Za-z0-9_]*
IsIdentifier(t) ==
  /\ t # <<>>
  /\ IsIdentStart(t[1])
  /\ \A k \in 1..Len(t) : IsIdentPart(t[k])

\* the parts of a statement written `validator A(B[, params]) = rest`: the
\* parenthesis that opens the list, the one that closes it (the first one an `=`
\* follows), and the first comma of the list
OpenParen(c) == Least({ p \in 1..Len(c) : c[p] = "(" })
CloseParen(c) ==
  Least({ p \in 1..Len(c) : c[p] = ")" /\ At(c, SkipSpace(c, p + 1), <<"=">>) })
ListComma(c) ==
  Least({ p \in (OpenParen(c) + 1)..(CloseParen(c) - 1) : c[p] = "," })

\* A, the identifier before the parenthesis
WrittenOuter(c) == Trim(SubSeq(c, Len((* validator *) <<"v", "a", "l", "i", "d", "a", "t", "o", "r">>) + 1, OpenParen(c) - 1))

\* B, the first identifier inside the parentheses
WrittenInner(c) ==
  Trim(SubSeq(c, OpenParen(c) + 1,
              IF ListComma(c) = 0 THEN CloseParen(c) - 1 ELSE ListComma(c) - 1))

\* the remainder of the parenthesised list, empty when there is no comma
WrittenParams(c) ==
  IF ListComma(c) = 0 THEN <<>> ELSE SubSeq(c, ListComma(c) + 1, CloseParen(c) - 1)

\* rest, what follows the `=`
WrittenRest(c) == SubSeq(c, SkipSpace(c, CloseParen(c) + 1) + 1, Len(c))

\* the validator statements processed so far, as positions in fileStatements
ProcessedValidators ==
  LET emitted == Ascending(ChunksWhere(IsEmittedStatement), 1, idx - 1)
  IN { k \in 1..Len(emitted) : IsValidatorStatement(statements[emitted[k]]) }

\* the chunk that gave the k-th entry of fileStatements
ChunkOfEntry(k) ==
  statements[Ascending(ChunksWhere(IsEmittedStatement), 1, idx - 1)[k]]

\* params and body of the node are those written in the statement
ParamsAndBody(node, c) ==
  /\ node.kind = "validatorDeclaration"
  /\ node.params = parseValidatorParams(WrittenParams(c), sourceName).value
  /\ node.body = Trim(WrittenRest(c))

NameStartsBadly(c) ==
  LET a == SkipSpace(c, SkipNonSpace(c, 1))
      b == SkipSpace(c, OpenParen(c) + 1)
  IN \/ a > Len(c)
     \/ ~IsIdentStart(c[a])
     \/ /\ IsValidatorStatement(c)
        /\ OpenParen(c) > 0
        /\ (b > Len(c) \/ ~IsIdentStart(c[b]))

\* C7: a type or validator declaration whose declared name does not start with a
\* letter or underscore is never accepted: parseString fails with a ParseError, at
\* that statement or before it; in a returned Document every declaration's name (and a
\* validator's targetType) is an identifier [A-Za-z_][A-Za-z0-9_]*.
C7_DeclaredNames ==
  /\ \A j \in Processed :
       IsDeclarationStatement(statements[j]) => ~NameStartsBadly(statements[j])
  /\ Terminated =>
       \A j \in ChunksWhere(IsDeclarationStatement) :
         NameStartsBadly(statements[j])
           => (pc = "failed" /\ idx <= j /\ error.name = "ParseError")
  /\ pc = "done" =>
       \A k \in 1..Len(document.statements) :
         /\ document.statements[k].kind = "typeDeclaration"
              => IsIdentifier(document.statements[k].name)
         /\ document.statements[k].kind = "validatorDeclaration"
              => /\ IsIdentifier(document.statements[k].name)
                 /\ IsIdentifier(document.statements[k].targetType)

\* a type declaration whose name starts with a digit, rejected after an accepted one
C7_Witness ==
  /\ pc = "failed"
  /\ idx >= 2
  /\ IsTypeStatement(statements[idx])
  /\ NameStartsBadly(statements[idx])
  /\ error.name = "ParseError"
  /\ error.code = "InvalidExpression"

\* ------------------------------------------------------------------------
\* C8: statement boundaries
\* ------------------------------------------------------------------------
LinePrefixes == {<<"@">>, (* scedel-version  *) <<"s", "c", "e", "d", "e", "l", "-", "v", "e", "r", "s", "i", "o", "n", " ">>, (* include  *) <<"i", "n", "c", "l", "u", "d", "e", " ">>, (* type  *) <<"t", "y", "p", "e", " ">>, (* validator  *) <<"v", "a", "l", "i", "d", "a", "t", "o", "r", " ">>}

\* the positions of the source where a line begins with one of the five prefixes
LineInitialPrefixes ==
  { p \in 1..Len(source) :
      /\ p = 1 \/ source[p - 1] = "\n"
      /\ \E w \in LinePrefixes : At(source, p, w) }

\* word occurs in s
Occurs(word, s) == \E p \in 1..Len(s) : At(s, p, word)

HasCarriageReturn == \E p \in 1..Len(source) : source[p] = "\r"

\* the text from each line-initial prefix to the next one, trimmed
WrittenStatements ==
  LET b == Ascending(LineInitialPrefixes, 1, Len(source))
  IN [k \in 1..Len(b) |->
        Trim(SubSeq(source, b[k], IF k < Len(b) THEN b[k + 1] - 1 ELSE Len(source)))]

\* a type statement that holds the word `include` after its first line, or inside it
KeywordInside(c) == IsTypeStatement(c) /\ Occurs((* include *) <<"i", "n", "c", "l", "u", "d", "e">>, c)

\* C8: the statements of a source are as many as its line-initial occurrences of the
\* five prefixes, never more; in a source without carriage returns each statement
\* is the trimmed text from one such occurrence to the next, so a keyword elsewhere in
\* a line starts nothing; an accepted type declaration that holds the word `include`
\* is a single typeDeclaration whose typeExpr holds the word, and
\* `type Example = { include: String }` is accepted as such.
C8_LineInitialPrefixes ==
  pc # "idle" =>
    /\ Len(statements) <= Cardinality(LineInitialPrefixes)
    /\ ~HasCarriageReturn => statements = WrittenStatements
    /\ LET emitted == Ascending(ChunksWhere(IsEmittedStatement), 1, idx - 1)
       IN \A k \in 1..Len(emitted) :
            KeywordInside(statements[emitted[k]])
              => /\ fileStatements[k].kind = "typeDeclaration"
                 /\ Occurs((* include *) <<"i", "n", "c", "l", "u", "d", "e">>, fileStatements[k].typeExpr)
    /\ (Terminated /\ source = (* type Example = { include: String } *) <<"t", "y", "p", "e", " ", "E", "x", "a", "m", "p", "l", "e", " ", "=", " ", "{", " ", "i", "n", "c", "l", "u", "d", "e", ":", " ", "S", "t", "r", "i", "n", "g", " ", "}">>)
         => /\ pc = "done"
            /\ document.statements
                 = <<[kind |-> "typeDeclaration", name |-> (* Example *) <<"E", "x", "a", "m", "p", "l", "e">>,
                      typeExpr |-> (* { include: String } *) <<"{", " ", "i", "n", "c", "l", "u", "d", "e", ":", " ", "S", "t", "r", "i", "n", "g", " ", "}">>, annotations |-> <<>>]>>

\* a type declaration whose body goes on with a line that holds `include`, followed
\* by another statement
C8_Witness ==
  /\ pc = "done"
  /\ Len(statements) = 2
  /\ Cardinality(LineInitialPrefixes) = 2
  /\ KeywordInside(statements[1])
  /\ Occurs(<<"\n">>, statements[1])
  /\ document.statements[1].kind = "typeDeclaration"
  /\ Occurs((* include *) <<"i", "n", "c", "l", "u", "d", "e">>, document.statements[1].typeExpr)

\* ------------------------------------------------------------------------
\* C9: splitByTopLevelComma
\* ------------------------------------------------------------------------
\* the last significant characters after which a `/` opens a regex literal
RegexOpeners ==
  {"", "(", "[", "{", ",", ":", "=", "|", "&", "!", "?", "+", "-", "*", "<", ">"}

NoneOpen == [paren |-> 0, bracket |-> 0, brace |-> 0]

\* the open (), [] and {} after ch: a closer with nothing open closes nothing
OpenAfter(open, ch) ==
  IF ch = "(" THEN [open EXCEPT !.paren = @ + 1]
  ELSE IF ch = ")" /\ open.paren > 0 THEN [open EXCEPT !.paren = @ - 1]
  ELSE IF ch = "[" THEN [open EXCEPT !.bracket = @ + 1]
  ELSE IF ch = "]" /\ open.bracket > 0 THEN [open EXCEPT !.bracket = @ - 1]
  ELSE IF ch = "{" THEN [open EXCEPT !.brace = @ + 1]
  ELSE IF ch = "}" /\ open.brace > 0 THEN [open EXCEPT !.brace = @ - 1]
  ELSE open

RECURSIVE TopLevelScan(_, _, _, _, _)
\* Reading s from position p. quote is "" in plain text, otherwise the character that
\* ends the literal being read; open counts the brackets open; last is the last
\* significant character ("literal" after a literal). The result gives the positions
\* of the commas outside every literal and every bracket, and whether a comment
\* begins somewhere.
TopLevelScan(s, p, quote, open, last) ==
  IF p > Len(s) THEN [commas |-> {}, comment |-> FALSE]
  ELSE IF quote # ""
  THEN IF s[p] = "\\" THEN TopLevelScan(s, p + 2, quote, open, last)
       ELSE IF s[p] = quote THEN TopLevelScan(s, p + 1, "", open, "literal")
       ELSE TopLevelScan(s, p + 1, quote, open, last)
  ELSE IF s[p] = "/" /\ p < Len(s) /\ (s[p + 1] = "/" \/ s[p + 1] = "*")
  THEN [commas |-> {}, comment |-> TRUE]
  ELSE IF s[p] = "'" \/ s[p] = "\"" THEN TopLevelScan(s, p + 1, s[p], open, last)
  ELSE IF s[p] = "/" /\ last \in RegexOpeners THEN TopLevelScan(s, p + 1, "/", open, last)
  ELSE IF s[p] = " " \/ s[p] = "\t" \/ s[p] = "\n" \/ s[p] = "\r"
  THEN TopLevelScan(s, p + 1, "", open, last)
  ELSE LET rest == TopLevelScan(s, p + 1, "", OpenAfter(open, s[p]), s[p])
       IN IF s[p] = "," /\ open = NoneOpen
          THEN [rest EXCEPT !.commas = @ \cup {p}]
          ELSE rest

HasComment(s) == TopLevelScan(s, 1, "", NoneOpen, "").comment

\* the commas of s outside every literal and at depth zero, in input order
TopLevelCommas(s) == Ascending(TopLevelScan(s, 1, "", NoneOpen, "").commas, 1, Len(s))

\* the texts between the top-level commas, trimmed, in input order; what follows the
\* last comma is left out when it is blank
TopLevelParts(s) ==
  LET cs == TopLevelCommas(s)
      piece(k) == Trim(SubSeq(s, IF k = 1 THEN 1 ELSE cs[k - 1] + 1,
                                 IF k <= Len(cs) THEN cs[k] - 1 ELSE Len(s)))
  IN IF piece(Len(cs) + 1) = <<>>
     THEN [k \in 1..Len(cs) |-> piece(k)]
     ELSE [k \in 1..(Len(cs) + 1) |-> piece(k)]

\* C9: for a span without comments, splitByTopLevelComma splits at exactly the commas
\* outside every quoted literal (a backslash escapes the next character), outside
\* every regex literal (a `/` opens one only after no significant character or one
\* of ( [ { , : = | & ! ? + - * < >) and at depth zero of (), [] and {}; the parts
\* come in input order, each trimmed (a blank text after the last comma is no part);
\* `a, f(b, c), d` gives [a, f(b, c), d].
C9_TopLevelCommas ==
  spc = "done" =>
    /\ ~HasComment(input) => parts = TopLevelParts(input)
    /\ input = (* a, f(b, c), d *) <<"a", ",", " ", "f", "(", "b", ",", " ", "c", ")", ",", " ", "d">> => parts = <<<<"a">>, (* f(b, c) *) <<"f", "(", "b", ",", " ", "c", ")">>, <<"d">>>>

\* the span of the example has been split
C9_Witness ==
  /\ spc = "done"
  /\ input = (* a, f(b, c), d *) <<"a", ",", " ", "f", "(", "b", ",", " ", "c", ")", ",", " ", "d">>
  /\ ~HasComment(input)
  /\ parts = <<<<"a">>, (* f(b, c) *) <<"f", "(", "b", ",", " ", "c", ")">>, <<"d">>>>

\* ------------------------------------------------------------------------
\* C10: parseAnnotationTarget
\* ------------------------------------------------------------------------
FirstDot(t) == Least({ p \in 1..Len(t) : t[p] = "." })

\* the text between the braces of `TypeName.{...}`
BracedList(t) == SubSeq(t, FirstDot(t) + 2, Len(t) - 1)

\* the fields written in a braced list, each trimmed
WrittenFields(t) ==
  LET fs == SplitOn(BracedList(t), ",", 1, 1)
  IN [k \in 1..Len(fs) |-> Trim(fs[k])]

\* the shape `TypeName.{f1, f2, ...}`: an identifier, a dot, and between braces a
\* list of identifiers separated by commas, spaces allowed around the commas only
IsFieldSetShape(t) ==
  /\ FirstDot(t) > 1
  /\ IsIdentifier(SubSeq(t, 1, FirstDot(t) - 1))
  /\ Len(t) >= FirstDot(t) + 2
  /\ t[FirstDot(t) + 1] = "{"
  /\ t[Len(t)] = "}"
  /\ Trim(BracedList(t)) = BracedList(t)
  /\ \A k \in 1..Len(WrittenFields(t)) : IsIdentifier(WrittenFields(t)[k])

RECURSIVE DotSegments(_, _, _)
\* the texts between the dots of t from position p on, each trimmed, the empty ones
\* left out; from is where the current text begins
DotSegments(t, from, p) ==
  IF p > Len(t) \/ t[p] = "."
  THEN LET seg == Trim(SubSeq(t, from, p - 1))
       IN (IF seg = <<>> THEN <<>> ELSE <<seg>>)
          \o (IF p > Len(t) THEN <<>> ELSE DotSegments(t, p + 1, p + 1))
  ELSE DotSegments(t, from, p + 1)

\* C10: parseAnnotationTarget gives, for a text of the shape `TypeName.{f1, f2, ...}`,
\* a FieldSet with that typeName and the fields in written order, each trimmed;
\* otherwise, with the text split on `.`, the segments trimmed and the empty ones
\* dropped: an InvalidAnnotationTarget error for zero segments, a Type for one, a
\* FieldPath (first segment, then the remaining ones in order) for two or more.
\* Every target returned keeps the text in raw.
C10_TargetClassification ==
  tpc \in {"done", "failed"} =>
    LET segs == DotSegments(rawTarget, 1, 1)
    IN /\ IF IsFieldSetShape(rawTarget)
          THEN /\ tpc = "done"
               /\ target = [kind |-> "fieldSet",
                            typeName |-> SubSeq(rawTarget, 1, FirstDot(rawTarget) - 1),
                            fields |-> WrittenFields(rawTarget),
                            raw |-> rawTarget]
          ELSE IF Len(segs) = 0
          THEN /\ tpc = "failed"
               /\ target = Null
               /\ targetError.name = "ParseError"
               /\ targetError.code = "InvalidAnnotationTarget"
               /\ targetError.category = "SemanticError"
          ELSE IF Len(segs) = 1
          THEN /\ tpc = "done"
               /\ target = [kind |-> "type", typeName |-> segs[1], raw |-> rawTarget]
          ELSE /\ tpc = "done"
               /\ target = [kind |-> "fieldPath", typeName |-> segs[1],
                            path |-> Tail(segs), raw |-> rawTarget]
       /\ rawTarget = (* Post.internalNote *) <<"P", "o", "s", "t", ".", "i", "n", "t", "e", "r", "n", "a", "l", "N", "o", "t", "e">>
            => target = [kind |-> "fieldPath", typeName |-> (* Post *) <<"P", "o", "s", "t">>,
                         path |-> <<(* internalNote *) <<"i", "n", "t", "e", "r", "n", "a", "l", "N", "o", "t", "e">>>>, raw |-> rawTarget]
       /\ rawTarget = (* Post.{a, b} *) <<"P", "o", "s", "t", ".", "{", "a", ",", " ", "b", "}">>
            => target = [kind |-> "fieldSet", typeName |-> (* Post *) <<"P", "o", "s", "t">>,
                         fields |-> <<<<"a">>, <<"b">>>>, raw |-> rawTarget]
       /\ rawTarget = (* Post *) <<"P", "o", "s", "t">>
            => target = [kind |-> "type", typeName |-> (* Post *) <<"P", "o", "s", "t">>, raw |-> rawTarget]

\* a field set whose list has spaces around a comma
C10_Witness ==
  /\ tpc = "done"
  /\ rawTarget = (* Post.{a, b} *) <<"P", "o", "s", "t", ".", "{", "a", ",", " ", "b", "}">>
  /\ IsFieldSetShape(rawTarget)
  /\ target.kind = "fieldSet"
  /\ target.fields = <<<<"a">>, <<"b">>>>
  /\ target.raw = rawTarget

\* ------------------------------------------------------------------------
\* C11: annotation targets
\* ------------------------------------------------------------------------
\* typeName and every element of path or fields are identifiers
WellFormedTarget(t) ==
  /\ IsIdentifier(t.typeName)
  /\ t.kind = "fieldPath" => \A k \in 1..Len(t.path) : IsIdentifier(t.path[k])
  /\ t.kind = "fieldSet" => \A k \in 1..Len(t.fields) : IsIdentifier(t.fields[k])

\* C11: in every returned Document the target of every targeted annotation has an
\* identifier as typeName and identifiers as the elements of path or fields; a target
\* text whose segments are no identifiers is never accepted.
C11_WellFormedTargets ==
  pc # "idle" =>
    \A k \in 1..Len(fileStatements) :
      fileStatements[k].kind = "targetedAnnotation"
        => WellFormedTarget(fileStatements[k].target)

\* ------------------------------------------------------------------------
\* C12: string literals
\* ------------------------------------------------------------------------
\* the longest literal body enumerated exhaustively over LiteralAlphabet
MaxLiteralLen == 4

LiteralAlphabet == {"a", "n", "\\", "'", "\"", "\n"}

\* the statement forms that hold a literal
LiteralForms ==
  { [before |-> (* include  *) <<"i", "n", "c", "l", "u", "d", "e", " ">>, after |-> <<>>],
    [before |-> (* @k =  *) <<"@", "k", " ", "=", " ">>, after |-> <<>>],
    [before |-> (* @k.l= *) <<"@", "k", ".", "l", "=">>, after |-> (*  on T *) <<" ", "o", "n", " ", "T">>] }

LiteralExamples ==
  { <<"@", "k">>,
    (* @k on T *) <<"@", "k", " ", "o", "n", " ", "T">>,
    (* @k = "a\nb" *) <<"@", "k", " ", "=", " ", "\"", "a", "\\", "n", "b", "\"">>,
    (* @k = 'it\'s' *) <<"@", "k", " ", "=", " ", "'", "i", "t", "\\", "'", "s", "'">>,
    (* include "\r\t\\\"" *) <<"i", "n", "c", "l", "u", "d", "e", " ", "\"", "\\", "r", "\\", "t", "\\", "\\", "\\", "\"", "\"">>,
    (* @k = "\r\t\\" on T.f *) <<"@", "k", " ", "=", " ", "\"", "\\", "r", "\\", "t", "\\", "\\", "\"", " ", "o", "n", " ", "T", ".", "f">> }

\* every body over LiteralAlphabet between two quotes of the same kind, in every form
LiteralSources ==
  { f.before \o <<q>> \o body \o <<q>> \o f.after :
      f \in LiteralForms,
      q \in {"'", "\""},
      body \in UNION { [1..n -> LiteralAlphabet] : n \in 0..MaxLiteralLen } }
    \cup LiteralExamples

\* parseString on every source of LiteralSources: one include or annotation statement
NextLiteral ==
  \/ pc = "idle" /\ \E src \in LiteralSources : ParseString(src, "inline.scedel")
  \/ IncludeStatement
  \/ AnnotationStatement
  \/ ReturnDocument

SpecLiteral == Init /\ [][NextLiteral]_vars

\* what a backslash followed by ch stands for
EscapeOf(ch) ==
  IF ch = "n" THEN "\n"
  ELSE IF ch = "r" THEN "\r"
  ELSE IF ch = "t" THEN "\t"
  ELSE ch

RECURSIVE Unescaped(_)
\* the text between the quotes with each backslash pair replaced, the other
\* characters copied in order
Unescaped(body) ==
  IF body = <<>> THEN <<>>
  ELSE IF body[1] = "\\" /\ Len(body) >= 2
  THEN <<EscapeOf(body[2])>> \o Unescaped(SubSeq(body, 3, Len(body)))
  ELSE <<body[1]>> \o Unescaped(Tail(body))

RECURSIVE ClosingQuote(_, _, _)
\* the position of the first quote q at or after p that no backslash escapes
ClosingQuote(c, p, q) ==
  IF p > Len(c) THEN p
  ELSE IF c[p] = "\\" THEN ClosingQuote(c, p + 2, q)
  ELSE IF c[p] = q THEN p
  ELSE ClosingQuote(c, p + 1, q)

\* the text between the quotes of the literal that opens at position p of c
BodyAt(c, p) == SubSeq(c, p + 1, ClosingQuote(c, p + 1, c[p]) - 1)

RECURSIVE KeyEnd(_, _)
\* the position after the key of an annotation statement
KeyEnd(c, p) ==
  IF p <= Len(c) /\ (IsIdentPart(c[p]) \/ c[p] = ".") THEN KeyEnd(c, p + 1) ELSE p

\* an annotation statement written with an `= <literal>` clause
HasValueClause(c) == At(c, SkipSpace(c, KeyEnd(c, 2)), <<"=">>)

\* the value an accepted annotation statement denotes
WrittenValue(c) ==
  IF HasValueClause(c)
  THEN Unescaped(BodyAt(c, SkipSpace(c, SkipSpace(c, KeyEnd(c, 2)) + 1)))
  ELSE (* true *) <<"t", "r", "u", "e">>

\* the path an accepted include statement denotes
WrittenPath(c) == Unescaped(BodyAt(c, SkipSpace(c, Len((* include *) <<"i", "n", "c", "l", "u", "d", "e">>) + 1)))

\* the annotations of the statements processed so far without an `on` clause, in
\* order: those attached to declarations, then those still pending
UntargetedSoFar == AttachedAnnotations(fileStatements) \o pendingAnnotations

\* C12: for every literal the include or annotation grammar accepts, the decoded
\* value is the text between the quotes with `\n`, `\r`, `\t` replaced by newline,
\* carriage return and tab and a backslash followed by any other character by that
\* character, the rest copied in order; an annotation with an `= <literal>` clause
\* has the decoded value (empty for an empty literal), one without has "true".
C12_DecodedLiterals ==
  pc # "idle" =>
    LET emitted == Ascending(ChunksWhere(IsEmittedStatement), 1, idx - 1)
        untargeted == Ascending(ChunksWhere(IsUntargetedStatement), 1, idx - 1)
        included == Ascending(ChunksWhere(IsIncludeStatement), 1, idx - 1)
    IN /\ Len(includes) = Len(included)
       /\ \A k \in 1..Len(included) :
            includes[k] = [kind |-> "include", path |-> WrittenPath(statements[included[k]])]
       /\ Len(UntargetedSoFar) = Len(untargeted)
       /\ \A k \in 1..Len(untargeted) :
            UntargetedSoFar[k].value = WrittenValue(statements[untargeted[k]])
       /\ Len(fileStatements) = Len(emitted)
       /\ \A k \in 1..Len(emitted) :
            fileStatements[k].kind = "targetedAnnotation"
              => fileStatements[k].annotation.value = WrittenValue(statements[emitted[k]])

\* an escaped n and an escaped quote have been decoded
C12_Witness ==
  /\ pc = "done"
  /\ source = (* @k = '\n\'' *) <<"@", "k", " ", "=", " ", "'", "\\", "n", "\\", "'", "'">>
  /\ Len(pendingAnnotations) = 1
  /\ pendingAnnotations[1].value = <<"\n", "'">>

\* ------------------------------------------------------------------------
\* C13: successive calls
\* ------------------------------------------------------------------------
\* the longest sequence of parseString calls on one parser
MaxCalls == 3

\* sources that leave a version set, annotations pending, a failure midway, or nothing
CallSources ==
  { (* scedel-version 1.2\ntype A = x *) <<"s", "c", "e", "d", "e", "l", "-", "v", "e", "r", "s", "i", "o", "n", " ", "1", ".", "2", "\n", "t", "y", "p", "e", " ", "A", " ", "=", " ", "x">>,
    (* @a\n@b = 'v' *) <<"@", "a", "\n", "@", "b", " ", "=", " ", "'", "v", "'">>,
    (* @a\ntype 1A = x\ntype B = y *) <<"@", "a", "\n", "t", "y", "p", "e", " ", "1", "A", " ", "=", " ", "x", "\n", "t", "y", "p", "e", " ", "B", " ", "=", " ", "y">>,
    (* include 'p'\n@c on T.f\nvalidator A(B, c) = x *) <<"i", "n", "c", "l", "u", "d", "e", " ", "'", "p", "'", "\n", "@", "c", " ", "o", "n", " ", "T", ".", "f", "\n", "v", "a", "l", "i", "d", "a", "t", "o", "r", " ", "A", "(", "B", ",", " ", "c", ")", " ", "=", " ", "x">>,
    (* @a\r\n@b\r\n@cc\r\n@d *) <<"@", "a", "\r", "\n", "@", "b", "\r", "\n", "@", "c", "c", "\r", "\n", "@", "d">>,
    <<>> }

\* parseString called up to MaxCalls times, each call after the one before it has
\* returned or thrown
NextCalls ==
  \/ /\ pc = "idle" \/ (pc \in {"done", "failed"} /\ Len(history) + 1 < MaxCalls)
     /\ \E src \in CallSources, name \in SourceNames : ParseString(src, name)
  \/ VersionStatement
  \/ IncludeStatement
  \/ AnnotationStatement
  \/ TypeStatement
  \/ ValidatorStatement
  \/ UnsupportedStatement
  \/ ReturnDocument

SpecCalls == Init /\ [][NextCalls]_vars

\* the outcome of a finished call is the outcome every earlier call with the same
\* two arguments had, the first of which ran on a new parser or after other calls
C13_SameOutcome ==
  Terminated =>
    \A k \in 1..Len(history) :
      (history[k].source = source /\ history[k].sourceName = sourceName)
        => (history[k].document = document /\ history[k].error = error)

\* what an earlier call with other arguments left does not reach the Document: its
\* version only when the source has a scedel-version statement, nor a failure for a
\* duplicate one
C13_NothingInherited ==
  /\ (pc = "done" /\ VersionChunks = {}) => document.version = Null
  /\ (pc = "failed" /\ error.code = "InvalidVersionDirective") => VersionChunks # {}
  /\ pc = "done" =>
       Len(AttachedAnnotations(document.statements))
         <= Cardinality(ChunksWhere(IsUntargetedStatement))

\* a call starts with locals of its own
C13_FreshLocals ==
  (pc # "running" /\ pc' = "running")
    => /\ version' = Null
       /\ includes' = <<>>
       /\ fileStatements' = <<>>
       /\ pendingAnnotations' = <<>>
       /\ idx' = 1

\* C13: no state is shared between parseString calls: the outcome of a call (the
\* Document returned or the error raised) depends only on source and sourceName and
\* is the same whatever calls were made before it, including calls that failed midway
\* or left annotations pending or a version set; no pending annotation or version of
\* an earlier call shows up in, or fails, a later one.
C13_NoSharedState ==
  /\ [](C13_SameOutcome /\ C13_NothingInherited)
  /\ [][C13_FreshLocals]_vars

\* a source parsed on a new parser, then a source that leaves annotations pending, then
\* the first source again, with the same Document
C13_Witness ==
  /\ pc = "done"
  /\ Len(history) = 2
  /\ history[1].source = source
  /\ history[1].sourceName = sourceName
  /\ history[1].document = document
  /\ history[2].source = (* @a\n@b = 'v' *) <<"@", "a", "\n", "@", "b", " ", "=", " ", "'", "v", "'">>
  /\ document.version # Null
  /\ Len(document.statements) = 1
  /\ document.statements[1].annotations = <<>>

\* ------------------------------------------------------------------------
\* C14: lines that end in \r\n
\* ------------------------------------------------------------------------
\* C14: whether the lines of the source end in \n or in \r\n, the statements are, in
\* source order, one chunk per line that begins with a recognized prefix, each the
\* trimmed text from the first character of its line up to the first character of
\* the next such line, or to the end of the source.
C14_ChunkPerStartLine ==
  pc # "idle" => statements = WrittenStatements

\* ------------------------------------------------------------------------
\* C15: block comments
\* ------------------------------------------------------------------------
RECURSIVE StateAt(_, _)
\* the scanner state after the first n characters of s
StateAt(s, n) ==
  IF n = 0 THEN createScannerState
  ELSE advanceScannerState(StateAt(s, n - 1), s, n - 1)

\* neither in a literal nor in a comment
InPlainCode(st) ==
  /\ ~st.inSingleQuote
  /\ ~st.inDoubleQuote
  /\ ~st.inRegex
  /\ ~st.inBlockComment
  /\ ~st.inLineComment

\* a block comment opens after the first q characters of s: `/*` read in plain code
OpensBlockComment(s, q) == InPlainCode(StateAt(s, q)) /\ At(s, q + 1, <<"/", "*">>)

\* the number of characters of s read when the comment that opens after q characters
\* is closed: those up to and with the first `*/` after its `/*`; 0 when it never is
BlockCommentEnd(s, q) ==
  LET e == Least({ p \in (q + 3)..Len(s) : At(s, p, <<"*", "/">>) })
  IN IF e = 0 THEN 0 ELSE e + 1

\* C15: a block comment lasts from its `/*` to its `*/` and no longer: with both
\* characters of the `*/` consumed the scanner is in plain code, with the depths and
\* the lastSignificant it had before the comment opened, so a comma at depth zero
\* right after the comment is a split point.
C15_BlockCommentCloses ==
  spc = "scan" =>
    \A q \in 0..pos :
      OpensBlockComment(input, q) =>
        /\ pos = BlockCommentEnd(input, q) => state = StateAt(input, q)
        /\ ( /\ BlockCommentEnd(input, q) > 0
             /\ pos = BlockCommentEnd(input, q) + 1
             /\ input[pos] = ","
             /\ isTopLevel(StateAt(input, q)) )
           => start = pos


\* ------------------------------------------------------------------------
\* C16: the last part of splitByTopLevelComma
\* ------------------------------------------------------------------------
Blank(s) == \A k \in 1..Len(s) : IsSpace(s[k])

EndsWithEmptyPart(list) == list # <<>> /\ list[Len(list)] = <<>>

\* the last non-blank character of s is a comma, and between it and the comma
\* before it (or the beginning of s) there is nothing but whitespace
EndsWithBareComma(s) ==
  \E c \in 1..Len(s) :
    /\ s[c] = ","
    /\ Blank(SubSeq(s, c + 1, Len(s)))
    /\ \E b \in 0..(c - 1) :
         /\ b > 0 => s[b] = ","
         /\ Blank(SubSeq(s, b + 1, c - 1))

\* as EndsWithBareComma, both commas taken among the commas outside literals and brackets
EndsWithBareTopLevelComma(s) ==
  LET cs == TopLevelCommas(s)
      n == Len(cs)
  IN /\ n > 0
     /\ Blank(SubSeq(s, cs[n] + 1, Len(s)))
     /\ Blank(SubSeq(s, IF n = 1 THEN 1 ELSE cs[n - 1] + 1, cs[n] - 1))

\* C16 as stated: the list returned by splitByTopLevelComma never ends with an empty
\* part, and an empty or whitespace-only span yields the empty list.
C16_AsStated ==
  spc = "done" =>
    /\ ~EndsWithEmptyPart(parts)
    /\ Blank(input) => parts = <<>>

\* C16: splitByTopLevelComma drops only the text after the last split comma, when it is
\* blank. An empty or whitespace-only span yields the empty list, and `a, b,` yields
\* [a, b]. The list ends with an empty part only when the last non-blank character of
\* the span is a comma with nothing but whitespace between it and the comma before it
\* (or the beginning of the span); in a span without comments it does so exactly when
\* these are top-level commas: `a,,` yields [a, ""] and `,` yields [""].
C16_OnlyTheTailIsDropped ==
  spc = "done" =>
    /\ Blank(input) => parts = <<>>
    /\ EndsWithEmptyPart(parts) => EndsWithBareComma(input)
    /\ ~HasComment(input) => (EndsWithEmptyPart(parts) <=> EndsWithBareTopLevelComma(input))
    /\ input = (* a, b, *) <<"a", ",", " ", "b", ",">> => parts = <<<<"a">>, <<"b">>>>
    /\ input = <<"a", ",", ",">> => parts = <<<<"a">>, <<>>>>
    /\ input = <<",">> => parts = << <<>> >>

\* a span ending in two top-level commas has been split, and its list ends with an
\* empty part
C16_Witness ==
  /\ spc = "done"
  /\ input = <<"a", ",", ",">>
  /\ EndsWithBareTopLevelComma(input)
  /\ EndsWithEmptyPart(parts)

\* ------------------------------------------------------------------------
\* C17: line comments in a parameter span
\* ------------------------------------------------------------------------
\* a `//` read in plain code puts the scanner in line-comment state
C17_EntersLineComment ==
  (spc = "scan" /\ pos < Len(input) /\ InPlainCode(state) /\ At(input, pos + 1, <<"/", "/">>))
    => state'.inLineComment

\* in line-comment state a step changes neither the scanner state nor the split so far
C17_LineCommentFrame ==
  (spc = "scan" /\ state.inLineComment) =>
    /\ state' = state
    /\ start' = start
    /\ spc' = "scan" => parts' = parts

\* the characters from the first `//` read in plain code on are in no part but the last
C17_NoSplitAfter ==
  spc = "done" =>
    \A q \in 0..(Len(input) - 1) :
      (InPlainCode(StateAt(input, q)) /\ At(input, q + 1, <<"/", "/">>)) =>
        /\ start <= q
        /\ parts # <<>>
        /\ parts[Len(parts)] = Trim(Slice(input, start, Len(input)))

\* C17: once the scanner has entered line-comment state (a `//` read in plain code),
\* every later step of splitByTopLevelComma leaves the whole scanner state unchanged,
\* a newline included, so no comma after the `//` is a split point: `a // x, y`
\* followed by a line `, b` is returned as one part.
C17_LineCommentNeverEnds ==
  /\ [][C17_EntersLineComment /\ C17_LineCommentFrame]_vars
  /\ [](C17_NoSplitAfter
        /\ ((spc = "done" /\ input = (* a // x, y\n, b *) <<"a", " ", "/", "/", " ", "x", ",", " ", "y", "\n", ",", " ", "b">>) => parts = <<(* a // x, y\n, b *) <<"a", " ", "/", "/", " ", "x", ",", " ", "y", "\n", ",", " ", "b">>>>))

\* the span of the example has been split: the scanner is still in the line comment
\* after the newline and the comma that follows it
C17_Witness ==
  /\ spc = "done"
  /\ input = (* a // x, y\n, b *) <<"a", " ", "/", "/", " ", "x", ",", " ", "y", "\n", ",", " ", "b">>
  /\ state.inLineComment
  /\ parts = <<input>>

\* ------------------------------------------------------------------------
\* C18: the reachable scanner states
\* ------------------------------------------------------------------------
Depths(st) == <<st.braceDepth, st.parenDepth, st.bracketDepth>>

\* how many of the five mode flags of st are set
FlagsSet(st) ==
  Cardinality({ f \in {"inSingleQuote", "inDoubleQuote", "inRegex",
                       "inBlockComment", "inLineComment"} : st[f] })

C18_StateInvariant ==
  /\ state.braceDepth >= 0
  /\ state.parenDepth >= 0
  /\ state.bracketDepth >= 0
  /\ FlagsSet(state) <= 1
  /\ state.escaped => (state.inSingleQuote \/ state.inDoubleQuote \/ state.inRegex)

\* a character read inside a literal or a comment changes no depth; a closer read in
\* plain code with nothing of its kind open leaves the depths as they are
C18_DepthFrame ==
  (spc = "scan" /\ pos < Len(input)) =>
    /\ ~InPlainCode(state) => Depths(state') = Depths(state)
    /\ (InPlainCode(state) /\ input[pos + 1] = ")" /\ state.parenDepth = 0)
         => Depths(state') = Depths(state)
    /\ (InPlainCode(state) /\ input[pos + 1] = "]" /\ state.bracketDepth = 0)
         => Depths(state') = Depths(state)
    /\ (InPlainCode(state) /\ input[pos + 1] = "}" /\ state.braceDepth = 0)
         => Depths(state') = Depths(state)

\* C18: in every scanner state reached from the initial state by advancing over a
\* character sequence, braceDepth, parenDepth and bracketDepth are not negative (an
\* unmatched closer leaves the depth at zero), at most one of inSingleQuote,
\* inDoubleQuote, inRegex, inBlockComment and inLineComment is true, escaped is true
\* only inside a quoted or regex literal, and a character consumed inside a literal
\* or comment changes no depth.
C18_ScannerStates == [] C18_StateInvariant /\ [][C18_DepthFrame]_vars

\* an unmatched `)` has been read in plain code and, later in the span, a bracket
\* inside a literal: the depths are all zero
C18_Witness ==
  /\ spc = "scan"
  /\ pos > 1
  /\ \E q \in 1..(pos - 1) :
       /\ input[q] = ")"
       /\ InPlainCode(StateAt(input, q - 1))
       /\ StateAt(input, q - 1).parenDepth = 0
  /\ input[pos] \in {"(", ")"}
  /\ ~InPlainCode(StateAt(input, pos - 1))
  /\ Depths(state) = <<0, 0, 0>>

\* ------------------------------------------------------------------------
\* C19: annotations still pending at the end of the source
\* ------------------------------------------------------------------------
\* the last declaration statement of the source, 0 when there is none
LastDeclaration == PreviousDeclaration(Len(statements) + 1)

\* the untargeted annotations written before / after the last declaration
AnnotationsOfChunks(S) ==
  LET chunks == Ascending(S, 1, Len(statements))
  IN [k \in 1..Len(chunks) |-> AnnotationOf(statements[chunks[k]])]

WrittenAttached ==
  AnnotationsOfChunks({ j \in ChunksWhere(IsUntargetedStatement) : j < LastDeclaration })

WrittenTrailing ==
  AnnotationsOfChunks({ j \in ChunksWhere(IsUntargetedStatement) : j > LastDeclaration })

\* the Document has no place for the trailing annotations: its statements are the
\* declarations and targeted annotations, and the declarations carry the annotations
\* written before the last declaration and no other
C19_Discarded ==
  pc = "done" =>
    /\ pendingAnnotations = WrittenTrailing
    /\ DOMAIN document = {"kind", "sourceName", "version", "includes", "statements"}
    /\ Len(document.statements) = Cardinality(ChunksWhere(IsEmittedStatement))
    /\ \A k \in 1..Len(document.statements) :
         document.statements[k].kind
           \in {"targetedAnnotation", "typeDeclaration", "validatorDeclaration"}
    /\ AttachedAnnotations(document.statements) = WrittenAttached

\* after the last statement the Document is returned whatever is pending
C19_NoFailure ==
  (pc = "running" /\ idx > Len(statements)) =>
    /\ pc' = "done"
    /\ error' = Null
    /\ document' # Null

\* C19: untargeted annotations still pending when the source ends (no type or
\* validator declaration follows them) are discarded: parseString does not fail
\* because of them and they appear nowhere in the returned Document, neither in
\* statements nor in a declaration's annotations.
C19_TrailingAnnotations == [] C19_Discarded /\ [][C19_NoFailure]_vars

\* `@a`, a type declaration and a trailing annotation: the Document is returned with
\* the first annotation attached and the last one pending
C19_Witness ==
  /\ pc = "done"
  /\ Len(statements) = 3
  /\ IsUntargetedStatement(statements[1])
  /\ IsTypeStatement(statements[2])
  /\ IsUntargetedStatement(statements[3])
  /\ pendingAnnotations = <<AnnotationOf(statements[3])>>
  /\ Len(document.statements) = 1
  /\ document.statements[1].annotations = <<AnnotationOf(statements[1])>>

\* ------------------------------------------------------------------------
\* C20: text before the first statement
\* ------------------------------------------------------------------------
\* the source from its first line that begins with a recognized prefix on
WithoutPreamble ==
  IF LineInitialPrefixes = {} THEN <<>>
  ELSE SubSeq(source, Least(LineInitialPrefixes), Len(source))

\* C20: text that precedes the first line beginning with a recognized prefix belongs
\* to no statement chunk, so the chunks, and with them the failure or the Document,
\* are those of the source without that text; a source with no such line at all, the
\* empty source included, yields the Document with version null and empty includes
\* and statements.
C20_PreambleIgnored ==
  pc # "idle" =>
    /\ statements = splitTopLevelStatements(WithoutPreamble)
    /\ (LineInitialPrefixes = {} /\ Terminated) =>
         /\ pc = "done"
         /\ document = Document(sourceName, Null, <<>>, <<>>)
====
